---- MODULE Spec2Model ----
(***************************************************************************)
(* State-machine model of the question-template admin client:              *)
(*   - the template state store  (TemplateContext.jsx, TemplateProvider)   *)
(*   - the API client it calls   (questionTemplateService.js)              *)
(*   - the error-message extractor (templateHelpers.js, parseErrorMessage) *)
(*   - the session store         (AuthProvider: login, loginWithGoogle,    *)
(*     register, refreshUserData, logout, active-child selection)           *)
(*   - the upload form           (TemplateUploadForm: validate, handleSave, *)
(*     handlePreview)                                                       *)
(*   - the pure helpers          (validateTemplateForm,                     *)
(*     sanitizeTemplateData, the lookup tables of templateHelpers.js)       *)
(* An asynchronous store action is two atomic steps, split at its `await`: *)
(* <action>Begin runs the synchronous prefix up to the request, and        *)
(* <action>Settle runs from the resumption to the return (the `finally`    *)
(* block included).  The backend is external: every HTTP exchange settles  *)
(* with an outcome drawn from a bounded set.                               *)
(***************************************************************************)
EXTENDS Integers, Sequences, FiniteSets, TLC

\* ------------------------------------------------------------------ bounds
MaxId == 2          \* template identifiers are 1..MaxId
MaxInFlight == 2    \* slots for overlapping asynchronous actions
MaxOffset == 50     \* loadMore is not taken beyond this offset

\* ------------------------------------------------------------- JS values
\* A JavaScript value as far as the error slot can tell them apart:
\* null, a string, or an Error object carrying a message.
Null == [t |-> "null", v |-> ""]
Str(s) == [t |-> "string", v |-> s]
Err(m) == [t |-> "error", v |-> m]
True == [t |-> "boolean", v |-> "true"]

GenericMsg == "An unexpected error occurred. Please try again."
TransportMsg == "Failed to fetch"
SrvMsg == "Template not found"

\* An extractor that hands the error value back unconverted.
parseErrorMessageRaw(e) == e

\* parseErrorMessage(error): error.message if truthy, else the value itself
\* if it is a string, else the generic fallback.
parseErrorMessage(e) ==
    IF e.t = "error" /\ e.v # "" THEN Str(e.v)
    ELSE IF e.t = "string" THEN e
    ELSE Str(GenericMsg)

\* ------------------------------------------------------------- templates
TemplateIds == 1..MaxId
Statuses == {"draft", "active"}
Template == [template_id : TemplateIds, status : Statuses]

RECURSIVE SeqsUpTo(_, _)
SeqsUpTo(S, n) ==
    IF n = 0 THEN {<<>>}
    ELSE LET shorter == SeqsUpTo(S, n - 1)
         IN  shorter \cup {Append(s, x) : s \in {q \in shorter : Len(q) = n - 1}, x \in S}

AscendingIds(s) == \A i, j \in 1..Len(s) : i < j => s[i].template_id < s[j].template_id

\* The pages a list response carries: identifiers unique (the backend assigns
\* them); the order is the server's, drawn here as ascending by identifier.
Collections == {s \in SeqsUpTo(Template, MaxId) : AscendingIds(s)}
Totals == {0, 7}
\* The server-reported total is at least the size of the page it comes with.
ListPayloads == {p \in Collections \X Totals : p[2] >= Len(p[1])}

\* A filter whose test is inverted (=== for !==): keeps only the deleted.
RECURSIVE FilterOutInverted(_, _)
FilterOutInverted(s, id) ==
    IF s = <<>> THEN <<>>
    ELSE IF Head(s).template_id = id
         THEN <<Head(s)>> \o FilterOutInverted(Tail(s), id)
         ELSE FilterOutInverted(Tail(s), id)

\* prev.filter(t => t.template_id !== templateId)
RECURSIVE FilterOut(_, _)
FilterOut(s, id) ==
    IF s = <<>> THEN <<>>
    ELSE IF Head(s).template_id # id
         THEN <<Head(s)>> \o FilterOut(Tail(s), id)
         ELSE FilterOut(Tail(s), id)

\* An upsert: replaces by identifier, appends when the identifier is absent.
MapUpsert(s, id, data) ==
    IF \E k \in 1..Len(s) : s[k].template_id = id
    THEN [k \in 1..Len(s) |-> IF s[k].template_id = id THEN data ELSE s[k]]
    ELSE Append(s, data)

\* prev.map(t => t.template_id === templateId ? data : t)
MapReplace(s, id, data) ==
    [k \in 1..Len(s) |-> IF s[k].template_id = id THEN data ELSE s[k]]

\* --------------------------------------------------------------- filters
DefaultFilters ==
    [module |-> "", category |-> "", difficulty |-> "", status |-> "",
     limit |-> 50, offset |-> 0]

NumericKeys == {"limit", "offset"}
Truthy(k, v) == IF k \in NumericKeys THEN v # 0 ELSE v # ""

\* The partial patches updateFilters is called with.
Patches ==
    { [module |-> "Math"],
      [offset |-> 50] }

\* The merge with the reset spread before the patch:
\* { ...prev, offset: 0, ...newFilters }
MergeFiltersPatchLast(prev, newFilters) ==
    [k \in (DOMAIN prev) \cup (DOMAIN newFilters) \cup {"offset"} |->
        IF k \in DOMAIN newFilters THEN newFilters[k]
        ELSE IF k = "offset" THEN 0
        ELSE prev[k]]

\* { ...prev, ...newFilters, offset: 0 }
MergeFilters(prev, newFilters) ==
    [k \in (DOMAIN prev) \cup (DOMAIN newFilters) \cup {"offset"} |->
        IF k = "offset" THEN 0
        ELSE IF k \in DOMAIN newFilters THEN newFilters[k]
        ELSE prev[k]]

\* { ...prev, offset: prev.offset + prev.limit }
AdvanceOffset(prev) == [prev EXCEPT !.offset = prev.offset + prev.limit]

\* ------------------------------------------------------------ API client
\* The query string listTemplates builds: a parameter is appended only for
\* a truthy filter value.
QueryKeys == {"module", "category", "difficulty", "status", "limit", "offset"}
QueryParams(f) ==
    [k \in {q \in QueryKeys \cap DOMAIN f : Truthy(q, f[q])} |-> f[k]]

NoParams == QueryParams([module |-> ""])

DefaultMsg(api) ==
    CASE api = "create"  -> "Failed to create template"
      [] api = "list"    -> "Failed to fetch templates"
      [] api = "get"     -> "Failed to fetch template"
      [] api = "update"  -> "Failed to update template"
      [] api = "delete"  -> "Failed to delete template"
      [] api = "preview" -> "Failed to preview template"
      [] api = "createGenerationJob" -> "Failed to create generation job"
      [] api = "getGenerationJob" -> "Failed to fetch job"
      [] api = "listGeneratedQuestions" -> "Failed to fetch generated questions"
      [] api = "getGeneratedQuestion" -> "Failed to fetch question"

\* What one HTTP exchange can come to:
\*   kind "reject" : fetch or response.json() rejects
\*   kind "status" : a response outside the success range; errmsg is the
\*                   body's error.message ("" when absent)
\*   kind "ok"     : a response in the success range; success, errmsg,
\*                   hasData, templates, total, rec, samples are the body
Outcome(kind, errmsg, success, hasData, tpls, total, rec, samples) ==
    [kind |-> kind, errmsg |-> errmsg, success |-> success, hasData |-> hasData,
     templates |-> tpls, total |-> total, rec |-> rec, samples |-> samples]

FailOutcomes ==
    {Outcome("reject", "", FALSE, FALSE, <<>>, 0, <<>>, 0)}
    \cup {Outcome("status", m, FALSE, FALSE, <<>>, 0, <<>>, 0) : m \in {"", SrvMsg}}

RefusedOutcomes ==
    {Outcome("ok", m, FALSE, FALSE, <<>>, 0, <<>>, 0) : m \in {"", SrvMsg}}

ListOutcomes ==
    FailOutcomes \cup RefusedOutcomes
    \cup {Outcome("ok", "", TRUE, FALSE, <<>>, 0, <<>>, 0)}
    \cup {Outcome("ok", "", TRUE, TRUE, p[1], p[2], <<>>, 0) : p \in ListPayloads}

\* The identifier the backend gives a created template.
CreatedId == MaxId

\* create answers with the new record (a draft); get and update (GET and PATCH on
\* /question-templates/{id}) answer with the record of the identifier asked.
CreateOutcomes ==
    FailOutcomes \cup RefusedOutcomes
    \cup {Outcome("ok", "", TRUE, TRUE, <<>>, 0, <<r>>, 0) :
            r \in {t \in Template : t.template_id = CreatedId /\ t.status = "draft"}}

RecordOutcomes(id) ==
    FailOutcomes \cup RefusedOutcomes
    \cup {Outcome("ok", "", TRUE, TRUE, <<>>, 0, <<r>>, 0) :
            r \in {t \in Template : t.template_id = id}}

DeleteOutcomes ==
    FailOutcomes \cup {Outcome("ok", "", TRUE, FALSE, <<>>, 0, <<>>, 0)}

\* previewTemplate = async (templateId, count = 3)
PreviewCount == 3

PreviewOutcomes ==
    FailOutcomes \cup RefusedOutcomes
    \cup {Outcome("ok", "", TRUE, TRUE, <<>>, 0, <<>>, PreviewCount)}

\* getAuthHeaders: the JSON content type and, when localStorage holds a
\* truthy authToken (<<>> for none), the bearer authorization.
getAuthHeaders(token) ==
    [ContentType |-> "application/json",
     Authorization |-> IF token # <<>> /\ token[1] # "" THEN <<"Bearer", token[1]>>
                       ELSE <<>>]

\* Service functions that put the default message on every response
\* outside the success range.
ServiceCallDefaultOnly(api, o) ==
    IF o.kind = "reject" THEN [threw |-> TRUE, err |-> Err(TransportMsg), body |-> o]
    ELSE IF o.kind = "status"
         THEN [threw |-> TRUE, err |-> Err(DefaultMsg(api)), body |-> o]
    ELSE [threw |-> FALSE, err |-> Null, body |-> IF api = "delete" THEN True ELSE o]

\* The service functions: rethrow a rejection, throw
\* Error(body.error.message || default) outside the success range, else
\* return the parsed body unchanged; deleteTemplate does not read the body
\* of a success and returns true.
ServiceCall(api, o) ==
    IF o.kind = "reject" THEN [threw |-> TRUE, err |-> Err(TransportMsg), body |-> o]
    ELSE IF o.kind = "status"
         THEN [threw |-> TRUE,
               err |-> Err(IF o.errmsg # "" THEN o.errmsg ELSE DefaultMsg(api)),
               body |-> o]
    ELSE [threw |-> FALSE, err |-> Null, body |-> IF api = "delete" THEN True ELSE o]

\* The operations of the client and what the exchange of each can come to.
ApiOps ==
    {"create", "list", "get", "update", "delete", "preview",
     "createGenerationJob", "getGenerationJob", "listGeneratedQuestions",
     "getGeneratedQuestion"}

OutcomesOf(api) ==
    CASE api = "list" -> ListOutcomes
      [] api = "create" -> CreateOutcomes
      [] api \in {"get", "update"} -> RecordOutcomes(1)
      [] api = "delete" -> DeleteOutcomes
      [] api = "preview" -> PreviewOutcomes
      [] OTHER -> FailOutcomes \cup RefusedOutcomes
                  \cup {Outcome("ok", "", TRUE, TRUE, <<>>, 0, <<>>, 0)}

\* What localStorage.getItem('authToken') can give.
StoredTokens == {<<>>, <<"">>, <<"tok">>}

\* The store's handling of a service result in every action but delete:
\* `if (response.success) ... else throw new Error(response.error?.message
\* || default)`, the throw being caught by the action's own catch.
StoreCall(api, o) ==
    LET r == ServiceCall(api, o)
    IN  IF r.threw THEN r
        ELSE IF r.body.success THEN r
        ELSE [threw |-> TRUE,
              err |-> Err(IF r.body.errmsg # "" THEN r.body.errmsg ELSE DefaultMsg(api)),
              body |-> r.body]

\* ------------------------------------------------------------------ state
VARIABLES
    templates,        \* useState([])    the local collection
    currentTemplate,  \* useState(null)  <<>> for null, <<t>> for a record
    filters,          \* useState({...}) the filter set
    loading,          \* useState(false) the busy flag
    error,            \* useState(null)  the error slot (a JS value)
    totalCount,       \* useState(0)
    ops,              \* the asynchronous actions in flight, by slot
    settled,          \* the HTTP exchange outcome the step just taken consumed
    lastResult        \* what the step just taken delivered to its caller

templateVars ==
    <<templates, currentTemplate, filters, loading, error, totalCount,
      ops, settled, lastResult>>

Slots == 1..MaxInFlight

\* A slot: kind "idle", or the action in flight with its argument, the
\* request it is suspended on, the values of the render it was taken from
\* that it still reads after its await (create: the filters of the
\* fetchTemplates it holds; update, delete: currentTemplate).
Idle ==
    [kind |-> "idle", phase |-> "", id |-> 0, filters |-> DefaultFilters,
     cur |-> <<>>, api |-> "", params |-> NoParams]

InFlight(kind, id) ==
    [kind |-> kind, phase |-> "call", id |-> id,
     filters |-> IF kind = "create" THEN filters ELSE DefaultFilters,
     cur |-> IF kind \in {"update", "delete"} THEN currentTemplate ELSE <<>>,
     api |-> kind,
     params |-> IF kind = "list" THEN QueryParams(filters) ELSE NoParams]

\* What a step delivers to the caller of a store action:
\*   kind "none"      nothing returned in this step
\*   kind "undefined" the action returned without a value (fetchTemplates
\*                    and the synchronous filter actions)
\*   kind "struct"    the action returned {success, data | error}; of the
\*                    data only the number of preview samples is kept
\* op names the action that returned, id the identifier a successful
\* deleteTemplate was called with, patch the argument of updateFilters.
NoPatch == [k \in {} |-> ""]
NoResult ==
    [kind |-> "none", op |-> "", id |-> 0, success |-> FALSE, error |-> Null,
     samples |-> 0, patch |-> NoPatch]
Undefined(op) == [NoResult EXCEPT !.kind = "undefined", !.op = op]
Success(op, samples) ==
    [NoResult EXCEPT !.kind = "struct", !.op = op, !.success = TRUE,
                     !.samples = samples]
Failure(op, msg) ==
    [NoResult EXCEPT !.kind = "struct", !.op = op, !.error = msg]

\* No exchange consumed by the step.
NoOutcome == Outcome("none", "", FALSE, FALSE, <<>>, 0, <<>>, 0)

Busy == {i \in Slots : ops[i].kind # "idle"}

\* An action that forgets setLoading(true).
BeginWithoutBusy(i, kind, id) ==
    /\ ops[i].kind = "idle"
    /\ error' = Null
    /\ ops' = [ops EXCEPT ![i] = InFlight(kind, id)]
    /\ settled' = NoOutcome
    /\ lastResult' = NoResult
    /\ UNCHANGED <<templates, currentTemplate, filters, totalCount, loading>>

\* Each asynchronous action opens with setLoading(true); setError(null) and
\* suspends on its request.
Begin(i, kind, id) ==
    /\ ops[i].kind = "idle"
    /\ loading' = TRUE
    /\ error' = Null
    /\ ops' = [ops EXCEPT ![i] = InFlight(kind, id)]
    /\ settled' = NoOutcome
    /\ lastResult' = NoResult
    /\ UNCHANGED <<templates, currentTemplate, filters, totalCount>>

\* The catch block of fetchTemplates pasted into the other actions: it also
\* clears the collection.
CatchAndReturnClears(i, err) ==
    /\ error' = parseErrorMessage(err)
    /\ templates' = <<>>
    /\ lastResult' = Failure(ops[i].kind, parseErrorMessage(err))
    /\ loading' = FALSE
    /\ ops' = [ops EXCEPT ![i] = Idle]
    /\ UNCHANGED <<currentTemplate, filters, totalCount>>

\* The catch block of create/update/delete/get/preview followed by finally:
\* setError(parseErrorMessage(err)); return {success: false, error};
\* setLoading(false).
CatchAndReturn(i, err) ==
    /\ error' = parseErrorMessage(err)
    /\ lastResult' = Failure(ops[i].kind, parseErrorMessage(err))
    /\ loading' = FALSE
    /\ ops' = [ops EXCEPT ![i] = Idle]
    /\ UNCHANGED <<templates, currentTemplate, filters, totalCount>>

\* A fetchTemplates whose catch omits setTemplates([]).
FetchEffectKeepsOnFailure(o) ==
    LET r == StoreCall("list", o)
    IN  IF r.threw
        THEN [templates |-> templates, totalCount |-> totalCount,
              error |-> parseErrorMessage(r.err)]
        ELSE [templates |-> IF r.body.hasData THEN r.body.templates ELSE <<>>,
              totalCount |-> IF r.body.hasData THEN r.body.total ELSE 0,
              error |-> error]

\* The body of fetchTemplates from the resumption of its await to the end of
\* its catch: the collection, total-count and error slot it leaves.
FetchEffect(o) ==
    LET r == StoreCall("list", o)
    IN  IF r.threw
        THEN [templates |-> <<>>, totalCount |-> totalCount,
              error |-> parseErrorMessage(r.err)]
        ELSE [templates |-> IF r.body.hasData THEN r.body.templates ELSE <<>>,
              totalCount |-> IF r.body.hasData THEN r.body.total ELSE 0,
              error |-> error]

fetchTemplatesBegin(i) == Begin(i, "list", 0)

\* A fetchTemplates that keeps the store as it is when its response arrives
\* while another request is still outstanding.
fetchTemplatesSettleDropsOverlapped(i, o) ==
    /\ ops[i].kind = "list"
    /\ settled' = o
    /\ IF \E j \in Slots : j # i /\ ops[j].kind # "idle"
       THEN UNCHANGED <<templates, totalCount, error>>
       ELSE /\ templates' = FetchEffect(o).templates
            /\ totalCount' = FetchEffect(o).totalCount
            /\ error' = FetchEffect(o).error
    /\ loading' = FALSE
    /\ ops' = [ops EXCEPT ![i] = Idle]
    /\ lastResult' = Undefined("list")
    /\ UNCHANGED <<currentTemplate, filters>>

fetchTemplatesSettle(i, o) ==
    /\ ops[i].kind = "list"
    /\ settled' = o
    /\ templates' = FetchEffect(o).templates
    /\ totalCount' = FetchEffect(o).totalCount
    /\ error' = FetchEffect(o).error
    /\ loading' = FALSE
    /\ ops' = [ops EXCEPT ![i] = Idle]
    /\ lastResult' = Undefined("list")
    /\ UNCHANGED <<currentTemplate, filters>>

createTemplateBegin(i) == Begin(i, "create", 0)

\* A create that inserts the returned record locally and returns at once.
createTemplateSettleLocalInsert(i, o) ==
    /\ ops[i].kind = "create" /\ ops[i].phase = "call"
    /\ settled' = o
    /\ LET r == StoreCall("create", o)
       IN  IF r.threw
           THEN CatchAndReturn(i, r.err)
           ELSE /\ templates' = Append(templates, r.body.rec[1])
                /\ loading' = FALSE
                /\ ops' = [ops EXCEPT ![i] = Idle]
                /\ lastResult' = Success("create", 0)
                /\ UNCHANGED <<currentTemplate, filters, totalCount, error>>

\* The create call settles: on failure catch and return; on success enter
\* the fetchTemplates captured by the closure (setLoading(true),
\* setError(null), list request with the captured filters) and await it.
createTemplateSettle(i, o) ==
    /\ ops[i].kind = "create" /\ ops[i].phase = "call"
    /\ settled' = o
    /\ LET r == StoreCall("create", o)
       IN  IF r.threw
           THEN CatchAndReturn(i, r.err)
           ELSE /\ loading' = TRUE
                /\ error' = Null
                /\ ops' = [ops EXCEPT ![i] =
                             [@ EXCEPT !.phase = "relist", !.api = "list",
                                       !.params = QueryParams(ops[i].filters)]]
                /\ lastResult' = NoResult
                /\ UNCHANGED <<templates, currentTemplate, filters, totalCount>>

\* The awaited fetchTemplates settles (it never rethrows), then
\* return {success: true, data: response.data} and finally setLoading(false).
createTemplateRelistSettle(i, o) ==
    /\ ops[i].kind = "create" /\ ops[i].phase = "relist"
    /\ settled' = o
    /\ templates' = FetchEffect(o).templates
    /\ totalCount' = FetchEffect(o).totalCount
    /\ error' = FetchEffect(o).error
    /\ loading' = FALSE
    /\ lastResult' = Success("create", 0)
    /\ ops' = [ops EXCEPT ![i] = Idle]
    /\ UNCHANGED <<currentTemplate, filters>>

updateTemplateBegin(i, id) == Begin(i, "update", id)

\* currentTemplate?.template_id === templateId, on the captured selection
Selected(cur, id) == cur # <<>> /\ cur[1].template_id = id

updateTemplateSettle(i, o) ==
    /\ ops[i].kind = "update"
    /\ settled' = o
    /\ LET r == StoreCall("update", o)
       IN  IF r.threw
           THEN CatchAndReturn(i, r.err)
           ELSE /\ templates' = MapReplace(templates, ops[i].id, r.body.rec[1])
                /\ currentTemplate' =
                     IF Selected(ops[i].cur, ops[i].id) THEN r.body.rec
                     ELSE currentTemplate
                /\ lastResult' = Success("update", 0)
                /\ loading' = FALSE
                /\ ops' = [ops EXCEPT ![i] = Idle]
                /\ UNCHANGED <<filters, error, totalCount>>

deleteTemplateBegin(i, id) == Begin(i, "delete", id)

\* A deleteTemplate that leaves the collection as it is.
deleteTemplateSettleKeepsElement(i, o) ==
    /\ ops[i].kind = "delete"
    /\ settled' = o
    /\ LET r == ServiceCall("delete", o)
       IN  IF r.threw
           THEN CatchAndReturn(i, r.err)
           ELSE /\ currentTemplate' =
                     IF Selected(ops[i].cur, ops[i].id) THEN <<>>
                     ELSE currentTemplate
                /\ lastResult' = [Success("delete", 0) EXCEPT !.id = ops[i].id]
                /\ loading' = FALSE
                /\ ops' = [ops EXCEPT ![i] = Idle]
                /\ UNCHANGED <<templates, filters, error, totalCount>>

deleteTemplateSettle(i, o) ==
    /\ ops[i].kind = "delete"
    /\ settled' = o
    /\ LET r == ServiceCall("delete", o)
       IN  IF r.threw
           THEN CatchAndReturn(i, r.err)
           ELSE /\ templates' = FilterOut(templates, ops[i].id)
                /\ currentTemplate' =
                     IF Selected(ops[i].cur, ops[i].id) THEN <<>>
                     ELSE currentTemplate
                /\ lastResult' = [Success("delete", 0) EXCEPT !.id = ops[i].id]
                /\ loading' = FALSE
                /\ ops' = [ops EXCEPT ![i] = Idle]
                /\ UNCHANGED <<filters, error, totalCount>>

getTemplateBegin(i, id) == Begin(i, "get", id)

\* A getTemplate whose finally lowers the busy flag only when no other
\* action is in flight.
getTemplateSettleCounting(i, o) ==
    /\ ops[i].kind = "get"
    /\ settled' = o
    /\ LET r == StoreCall("get", o)
       IN  /\ IF r.threw
              THEN /\ error' = parseErrorMessage(r.err)
                   /\ lastResult' = Failure("get", parseErrorMessage(r.err))
                   /\ UNCHANGED currentTemplate
              ELSE /\ currentTemplate' = r.body.rec
                   /\ lastResult' = Success("get", 0)
                   /\ UNCHANGED error
           /\ loading' = (Busy \ {i} # {})
           /\ ops' = [ops EXCEPT ![i] = Idle]
           /\ UNCHANGED <<templates, filters, totalCount>>

getTemplateSettle(i, o) ==
    /\ ops[i].kind = "get"
    /\ settled' = o
    /\ LET r == StoreCall("get", o)
       IN  IF r.threw
           THEN CatchAndReturn(i, r.err)
           ELSE /\ currentTemplate' = r.body.rec
                /\ lastResult' = Success("get", 0)
                /\ loading' = FALSE
                /\ ops' = [ops EXCEPT ![i] = Idle]
                /\ UNCHANGED <<templates, filters, error, totalCount>>

previewTemplateBegin(i, id) == Begin(i, "preview", id)

\* A preview with getTemplate's setCurrentTemplate(response.data) left in.
previewTemplateSettleStores(i, o) ==
    /\ ops[i].kind = "preview"
    /\ settled' = o
    /\ LET r == StoreCall("preview", o)
       IN  IF r.threw
           THEN CatchAndReturn(i, r.err)
           ELSE /\ currentTemplate' = r.body.rec
                /\ lastResult' = Success("preview", r.body.samples)
                /\ loading' = FALSE
                /\ ops' = [ops EXCEPT ![i] = Idle]
                /\ UNCHANGED <<templates, filters, error, totalCount>>

previewTemplateSettle(i, o) ==
    /\ ops[i].kind = "preview"
    /\ settled' = o
    /\ LET r == StoreCall("preview", o)
       IN  IF r.threw
           THEN CatchAndReturn(i, r.err)
           ELSE /\ lastResult' = Success("preview", r.body.samples)
                /\ loading' = FALSE
                /\ ops' = [ops EXCEPT ![i] = Idle]
                /\ UNCHANGED <<templates, currentTemplate, filters, error, totalCount>>

updateFilters(newFilters) ==
    /\ filters' = MergeFilters(filters, newFilters)
    /\ lastResult' = [Undefined("updateFilters") EXCEPT !.patch = newFilters]
    /\ settled' = NoOutcome
    /\ UNCHANGED <<templates, currentTemplate, loading, error, totalCount, ops>>

clearFilters ==
    /\ filters' = DefaultFilters
    /\ lastResult' = Undefined("clearFilters")
    /\ settled' = NoOutcome
    /\ UNCHANGED <<templates, currentTemplate, loading, error, totalCount, ops>>

loadMore ==
    /\ filters.offset + filters.limit <= MaxOffset
    /\ filters' = AdvanceOffset(filters)
    /\ lastResult' = Undefined("loadMore")
    /\ settled' = NoOutcome
    /\ UNCHANGED <<templates, currentTemplate, loading, error, totalCount, ops>>

\* ---------------------------------------------------------- session store
\* AuthProvider: the authenticated principal, its normalized profile, the
\* active child, and what it keeps in local storage.  Strings stand for the
\* identifiers; "" stands for an absent (undefined / null) string.
Principals == {"p1", "s1", "t1"}
ChildArgs == {"c1", "c2", "zz"}

\* A current-user response body (UserDetail): hasChildren tells whether the
\* body has a children mapping, children lists its keys in insertion order.
ApiData(uid, role, userTypeField, hasChildren, children) ==
    [user_id |-> uid, role |-> role, user_type |-> userTypeField,
     hasChildren |-> hasChildren, children |-> children]

NoApiData == ApiData("", "", "", FALSE, <<>>)

\* What the backend answers on /users/me for the bearer of a credential.
ProfilesOf(u) ==
    CASE u = "p1" -> {ApiData("p1", "parent", "", TRUE, c) :
                        c \in {<<"c1", "c2">>, <<"c2">>}}
                     \cup {ApiData("p1", "parent", "", FALSE, <<>>)}
      [] u = "s1" -> {ApiData("s1", "", "student", FALSE, <<>>),
                      ApiData("s1", "student", "", TRUE, <<>>),
                      ApiData("s1", "student", "", TRUE, <<"c1">>)}
      [] u = "t1" -> {ApiData("t1", "teacher", "", FALSE, <<>>),
                      ApiData("t1", "admin", "", FALSE, <<>>)}
      [] OTHER -> {}

\* An exchange of the session store: kind as for the template client;
\* detail is the body's detail field, token its access_token (or token),
\* api the current-user body, success and user the body's fields of those
\* names (user: <<>> when the body has none).
AuthOutcome(kind, detail, token, api) ==
    [kind |-> kind, detail |-> detail, token |-> token, api |-> api,
     success |-> FALSE, user |-> <<>>]

NoAuthOutcome == AuthOutcome("none", "", "", NoApiData)

\* The credential issued for principal u is written u.
LoginOutcomes ==
    {AuthOutcome("reject", "", "", NoApiData)}
    \cup {AuthOutcome("status", d, "", NoApiData) : d \in {"", "Invalid credentials"}}
    \cup {AuthOutcome("ok", "", u, NoApiData) : u \in Principals}

MeOutcomes(token) ==
    {AuthOutcome("reject", "", "", NoApiData),
     AuthOutcome("status", "", "", NoApiData)}
    \cup {AuthOutcome("ok", "", "", a) : a \in ProfilesOf(token)}

\* signInWithPopup: the popup is closed or the provider fails, or the
\* provider returns its user.
PopupOutcomes ==
    {AuthOutcome("reject", "", "", NoApiData), AuthOutcome("ok", "", "", NoApiData)}

\* /api/v1/auth/google: the request or the parsing of its body fails, or the
\* body says success: false, or success: true with a token and, as a rule,
\* the user it belongs to.
SyncOutcomes ==
    {AuthOutcome("reject", "", "", NoApiData), AuthOutcome("ok", "", "", NoApiData)}
    \cup {[AuthOutcome("ok", "", u, NoApiData) EXCEPT !.success = TRUE, !.user = <<u>>] :
            u \in Principals}
    \cup {[AuthOutcome("ok", "", u, NoApiData) EXCEPT !.success = TRUE] :
            u \in Principals}

\* /api/v1/auth/register
RegisterOutcomes ==
    {AuthOutcome("reject", "", "", NoApiData)}
    \cup {AuthOutcome("status", d, "", NoApiData) : d \in {"", "Email already registered"}}
    \cup {AuthOutcome("ok", "", "", NoApiData)}

VARIABLES
    user,               \* useState(null)  <<>> or <<uid>>
    userData,           \* useState(null)  <<>> or <<normalized profile>>
    userType,           \* useState(null)  "" for null
    activeChildId,      \* useState(null)  "" for null
    activeChildLoading, \* useState(true)
    localStorage,       \* authToken, authUser, activeChild_<uid>
    authOp,             \* the session action in flight
    authSettled,        \* the exchange outcome the step just taken consumed
    authResult          \* what the step just taken delivered to its caller

sessionVars ==
    <<user, userData, userType, activeChildId, activeChildLoading,
      localStorage, authOp, authSettled, authResult>>

\* ------------------------------------------------------------ upload form
\* A text value, as far as validation reads it: its length and the length
\* of its trim().
Text(len, trimmed) == [len |-> len, trim |-> trimmed]
Empty == Text(0, 0)
Blank == Text(3, 0)

MaxNameLen == 100
MaxFormatLen == 200
MinCodeLen == 10

NameFields == {"module", "category", "topic", "subtopic"}
CodeFields == {"dynamic_question", "logical_answer"}
TextFields == NameFields \cup {"format"} \cup CodeFields
RequiredFields == TextFields \cup {"difficulty", "type"}

\* What the user types into a field (a field left alone stays empty).
FieldValues(f) ==
    CASE f = "module" -> {Blank, Text(MaxNameLen, MaxNameLen),
                          Text(MaxNameLen + 1, MaxNameLen + 1)}
      [] f = "format" -> {Text(MaxFormatLen, MaxFormatLen),
                          Text(MaxFormatLen + 1, MaxFormatLen + 1)}
      [] f = "dynamic_question" -> {Text(MinCodeLen, MinCodeLen),
                                    Text(MinCodeLen - 1, MinCodeLen - 1)}
      [] f = "logical_answer" -> {Text(MinCodeLen, MinCodeLen)}
      [] OTHER -> {Text(MaxNameLen, MaxNameLen)}

\* The text fields from top to bottom of the form.
FormOrder ==
    <<"module", "category", "topic", "subtopic", "format",
      "dynamic_question", "logical_answer">>

\* useState({...}) of the form: the text fields empty, difficulty 'easy',
\* type 'user_input' (grade_level and status take no part in validation).
InitialForm ==
    [f \in RequiredFields |->
        CASE f = "difficulty" -> Text(4, 4)
          [] f = "type" -> Text(10, 10)
          [] OTHER -> Empty]

RequiredMsg(f) ==
    CASE f = "module" -> "Module is required"
      [] f = "category" -> "Category is required"
      [] f = "topic" -> "Topic is required"
      [] f = "subtopic" -> "Subtopic is required"
      [] f = "format" -> "Format is required"
      [] f = "difficulty" -> "Difficulty is required"
      [] f = "type" -> "Question type is required"
      [] f = "dynamic_question" -> "Dynamic question code is required"
      [] f = "logical_answer" -> "Logical answer code is required"

TooLongMsg(f) ==
    CASE f = "module" -> "Module must be less than 100 characters"
      [] f = "category" -> "Category must be less than 100 characters"
      [] f = "topic" -> "Topic must be less than 100 characters"
      [] f = "subtopic" -> "Subtopic must be less than 100 characters"
      [] f = "format" -> "Format must be less than 200 characters"

\* An error map: the message under each key, "" where the map has no
\* (truthy) entry.
NoErrors == [f \in RequiredFields |-> ""]

\* Whether `!data.f` holds: the field is missing or the empty string.
Falsy(data, f) == f \notin DOMAIN data \/ data[f].len = 0

\* A validateTemplateForm whose required checks test `!data.f` alone,
\* without the trim.
validateTemplateFormUntrimmed(data) ==
    LET errs == [f \in RequiredFields |->
                   IF Falsy(data, f) THEN RequiredMsg(f)
                   ELSE IF f \in NameFields /\ data[f].len > MaxNameLen THEN TooLongMsg(f)
                   ELSE IF f = "format" /\ data[f].len > MaxFormatLen THEN TooLongMsg(f)
                   ELSE IF f \in CodeFields /\ data[f].len < MinCodeLen
                        THEN "Code must be at least 10 characters"
                   ELSE ""]
    IN  [isValid |-> \A f \in RequiredFields : errs[f] = "", errors |-> errs]

\* validateTemplateForm: the required checks (`!data.f ||
\* data.f.trim().length === 0`), then the length checks (`data.f &&
\* data.f.length ...`), which overwrite the entry of the same field.
validateTemplateForm(data) ==
    LET errs == [f \in RequiredFields |->
                   IF Falsy(data, f) THEN RequiredMsg(f)
                   ELSE IF f \in NameFields /\ data[f].len > MaxNameLen THEN TooLongMsg(f)
                   ELSE IF f = "format" /\ data[f].len > MaxFormatLen THEN TooLongMsg(f)
                   ELSE IF f \in CodeFields /\ data[f].len < MinCodeLen
                        THEN "Code must be at least 10 characters"
                   ELSE IF data[f].trim = 0 THEN RequiredMsg(f)
                   ELSE ""]
    IN  [isValid |-> \A f \in RequiredFields : errs[f] = "", errors |-> errs]

\* validate of the form: only the required check, on the seven text fields.
validate(data) ==
    LET newErrors == [f \in RequiredFields |->
                        IF f \in TextFields /\ data[f].trim = 0 THEN RequiredMsg(f)
                        ELSE ""]
    IN  [isValid |-> \A f \in RequiredFields : newErrors[f] = "", errors |-> newErrors]

VARIABLES
    formData,     \* useState({...})
    errors,       \* useState({})
    showPreview,  \* useState(false)
    previewData,  \* useState(null)  0 for null, else the number of samples
    formOp        \* the handler suspended on a store action

formVars == <<formData, errors, showPreview, previewData, formOp>>

FormIdle == [kind |-> "idle", phase |-> ""]

\* --------------------------------------------------- the pure helpers
\* The drafts the helpers are applied to: a draft is a record of field
\* texts; a field the caller left out is outside its domain.  Absent marks
\* such a field in a choice of field values.
Absent == Text(0 - 1, 0 - 1)

FieldChoices(f) ==
    {Absent, Empty, Blank}
    \cup (CASE f \in NameFields ->
                 {Text(MaxNameLen, MaxNameLen), Text(MaxNameLen + 1, MaxNameLen + 1),
                  Text(MaxNameLen + 1, MaxNameLen), Text(MaxNameLen + 1, 0)}
            [] f = "format" ->
                 {Text(MaxFormatLen, MaxFormatLen),
                  Text(MaxFormatLen + 1, MaxFormatLen + 1)}
            [] f \in CodeFields ->
                 {Text(MinCodeLen, MinCodeLen), Text(MinCodeLen - 1, MinCodeLen - 1),
                  Text(MinCodeLen, 1), Text(MinCodeLen - 1, 0)}
            [] OTHER -> {Text(4, 4)})

\* A draft every rule accepts.
ValidChoice ==
    [f \in RequiredFields |->
        CASE f \in NameFields -> Text(MaxNameLen, MaxNameLen)
          [] f = "format" -> Text(MaxFormatLen, MaxFormatLen)
          [] f \in CodeFields -> Text(MinCodeLen, MinCodeLen)
          [] OTHER -> Text(4, 4)]

DraftOf(c) == [f \in {g \in RequiredFields : c[g] # Absent} |-> c[f]]

\* The drafts that differ from the valid one in at most two fields.
Drafts ==
    UNION {UNION {{DraftOf([ValidChoice EXCEPT ![f] = v, ![g] = w]) :
                      v \in FieldChoices(f), w \in FieldChoices(g)} :
                  g \in RequiredFields} :
           f \in RequiredFields}

\* Text as sanitizeTemplateData sees it: a string over a whitespace
\* character and a letter.
MaxStrLen == 3
Chars == {" ", "a"}
Strings == SeqsUpTo(Chars, MaxStrLen)

RECURSIVE trimStart(_)
trimStart(s) ==
    IF s # <<>> /\ Head(s) = " " THEN trimStart(Tail(s)) ELSE s

RECURSIVE trimEnd(_)
trimEnd(s) ==
    IF s # <<>> /\ s[Len(s)] = " " THEN trimEnd(SubSeq(s, 1, Len(s) - 1)) ELSE s

\* String.prototype.trim
trim(s) == trimEnd(trimStart(s))

\* A sanitizeTemplateData that strips leading whitespace only.
sanitizeTemplateDataLeading(data) ==
    [f \in RequiredFields |-> IF f \in DOMAIN data THEN trimStart(data[f]) ELSE <<>>]

\* sanitizeTemplateData: `data.f?.trim() || ''` for each of the nine fields
\* (a missing field has no trim to call and comes out as '').
sanitizeTemplateData(data) ==
    [f \in RequiredFields |-> IF f \in DOMAIN data THEN trim(data[f]) ELSE <<>>]

\* The records sanitizeTemplateData is applied to: every field "a" but
\* type and one more, which hold any string or are left out (NoField).
NoField == <<"undefined">>
PlainChoice == [f \in RequiredFields |-> <<"a">>]
RecordOf(c) == [f \in {g \in RequiredFields : c[g] # NoField} |-> c[f]]
RawRecords ==
    UNION {{RecordOf([PlainChoice EXCEPT ![f] = v, !["type"] = w]) :
               v \in Strings \cup {NoField}, w \in Strings \cup {NoField}} :
           f \in RequiredFields}

\* The lookup helpers.  A key is <<>> when the argument is undefined or
\* null, else <<k>>.
LookupKeys ==
    {"easy", "Easy", "EASY", "medium", "hard", "expert", "draft", "active",
     "Active", "inactive", "mcq", "MCQ", "user_input", "image_based",
     "code_based", "unknown", "", "constructor", "__proto__"}
LookupArgs == {<<>>} \cup {<<k>> : k \in LookupKeys}

\* String.prototype.toLowerCase on the keys above.
toLowerCase(k) ==
    CASE k \in {"Easy", "EASY"} -> "easy"
      [] k = "Active" -> "active"
      [] k = "MCQ" -> "mcq"
      [] OTHER -> k

JsUndefined == [t |-> "undefined", v |-> ""]
JsFunction(n) == [t |-> "function", v |-> n]
JsObject(n) == [t |-> "object", v |-> n]

\* table[key?.toLowerCase()] on an object literal: an own property, else
\* what the literal inherits from Object.prototype, else undefined.
Lookup(table, key) ==
    IF key = <<>> THEN JsUndefined
    ELSE LET k == toLowerCase(key[1])
         IN  IF k \in DOMAIN table THEN Str(table[k])
             ELSE IF k = "constructor" THEN JsFunction("Object")
             ELSE IF k = "__proto__" THEN JsObject("Object.prototype")
             ELSE JsUndefined

\* found || fallback
OrElse(found, fallback) == IF found = JsUndefined THEN fallback ELSE found

DefaultColor == "#6b7280"
colors ==
    [easy |-> "#10b981", medium |-> "#f59e0b", hard |-> "#ef4444",
     expert |-> "#8b5cf6"]
getDifficultyColor(difficulty) == OrElse(Lookup(colors, difficulty), Str(DefaultColor))

\* A badge descriptor is told by its label.
badges == [draft |-> "Draft", active |-> "Active", inactive |-> "Inactive"]
getStatusBadge(status) == OrElse(Lookup(badges, status), Str(badges.draft))

types ==
    [mcq |-> "Multiple Choice", user_input |-> "User Input",
     image_based |-> "Image Based", code_based |-> "Code Based"]
formatQuestionType(type) ==
    OrElse(Lookup(types, type), IF type = <<>> THEN JsUndefined ELSE Str(type[1]))

DefaultIcon == "question mark"
icons ==
    [mcq |-> "clipboard", user_input |-> "pencil", image_based |-> "picture",
     code_based |-> "laptop"]
getQuestionTypeIcon(type) == OrElse(Lookup(icons, type), Str(DefaultIcon))

VARIABLES
    call          \* the helper applied by the step just taken: its name,
                  \* its argument and what it returned

helperVars == <<call>>

\* nth counts the applications in a row: the second takes the result of the
\* first as its argument and keeps the first's argument in `first`.
NoCall == [fn |-> "", nth |-> 0, arg |-> <<>>, out |-> <<>>, first |-> <<>>]

vars == <<templateVars, sessionVars, formVars, helperVars>>

\* token: the credential the awaited current-user request carries; creds:
\* whether register's payload has both email and password.
AuthIdle == [kind |-> "idle", phase |-> "", token |-> "", creds |-> FALSE]

\* kind "raised": the action's promise rejected (the failure propagated).
NoAuthResult == [kind |-> "none", op |-> "", success |-> FALSE, message |-> ""]
AuthUndefined(op) == [NoAuthResult EXCEPT !.kind = "undefined", !.op = op]
AuthRaised(op) == [NoAuthResult EXCEPT !.kind = "raised", !.op = op]
AuthSuccess(op) == [NoAuthResult EXCEPT !.kind = "struct", !.op = op, !.success = TRUE]
AuthFailure(op, msg) == [NoAuthResult EXCEPT !.kind = "struct", !.op = op, !.message = msg]

\* The state after both providers are mounted with local storage empty: the
\* useState initial values, activeChildLoading already lowered by the first
\* run of the active-child effect (no user).
Init ==
    /\ templates = <<>>
    /\ currentTemplate = <<>>
    /\ filters = DefaultFilters
    /\ loading = FALSE
    /\ error = Null
    /\ totalCount = 0
    /\ ops = [i \in Slots |-> Idle]
    /\ settled = NoOutcome
    /\ lastResult = NoResult
    /\ user = <<>>
    /\ userData = <<>>
    /\ userType = ""
    /\ activeChildId = ""
    /\ activeChildLoading = FALSE
    /\ localStorage = [authToken |-> <<>>, authUser |-> <<>>,
                       activeChild |-> [u \in Principals |-> ""]]
    /\ authOp = AuthIdle
    /\ authSettled = NoAuthOutcome
    /\ authResult = NoAuthResult
    /\ formData = InitialForm
    /\ errors = NoErrors
    /\ showPreview = FALSE
    /\ previewData = 0
    /\ formOp = FormIdle
    /\ call = NoCall

\* const role = apiData.role || apiData.user_type || 'student'
RoleOf(api) ==
    IF api.role # "" THEN api.role
    ELSE IF api.user_type # "" THEN api.user_type
    ELSE "student"

\* A normalization without the student's own entry.
NormalizePassThrough(api) ==
    IF RoleOf(api) = "teacher"
    THEN [uid |-> api.user_id, userType |-> "teacher",
          hasChildren |-> api.hasChildren, children |-> api.children]
    ELSE [uid |-> api.user_id, userType |-> RoleOf(api),
          hasChildren |-> TRUE, children |-> api.children]

\* teacherData / normalizedData: the teacher profile passes the body through
\* (children only if the body had them); otherwise children is the body's
\* mapping or {}, and for a student with none, the student's own entry.
Normalize(api) ==
    IF RoleOf(api) = "teacher"
    THEN [uid |-> api.user_id, userType |-> "teacher",
          hasChildren |-> api.hasChildren, children |-> api.children]
    ELSE [uid |-> api.user_id, userType |-> RoleOf(api),
          hasChildren |-> TRUE,
          children |-> IF RoleOf(api) = "student" /\ api.children = <<>>
                       THEN <<api.user_id>> ELSE api.children]

InSeq(x, q) == \E k \in 1..Len(q) : q[k] = x

\* The effect on [user, userData] that initialises activeChildId: the value
\* it leaves, given the state after the render that triggered it.
ActiveChildEffect(u, ud, ls, current) ==
    IF u = <<>> \/ ud = <<>> THEN current
    ELSE IF ~ud[1].hasChildren THEN current
    ELSE LET stored == ls.activeChild[u[1]]
             childKeys == ud[1].children
         IN  IF stored # "" /\ InSeq(stored, childKeys) THEN stored
             ELSE IF Len(childKeys) > 0 THEN childKeys[1]
             ELSE current

\* fetchUserData from the resumption of its fetch to its end, followed by
\* the active-child effect of the render it causes.
FetchUserDataSettle(o) ==
    /\ IF o.kind = "ok"
       THEN /\ userType' = RoleOf(o.api)
            /\ userData' = <<Normalize(o.api)>>
            /\ user' = <<o.api.user_id>>
            /\ localStorage' = [localStorage EXCEPT !.authUser = <<o.api.user_id>>]
       ELSE /\ userData' = <<>>
            /\ userType' = ""
            /\ UNCHANGED <<user, localStorage>>
    /\ activeChildId' = ActiveChildEffect(user', userData', localStorage', activeChildId)
    /\ activeChildLoading' = FALSE

loginBegin ==
    /\ authOp.kind = "idle"
    /\ authOp' = [kind |-> "login", phase |-> "login", token |-> "", creds |-> FALSE]
    /\ authSettled' = NoAuthOutcome
    /\ authResult' = NoAuthResult
    /\ UNCHANGED <<user, userData, userType, activeChildId, activeChildLoading,
                   localStorage>>

\* A login that stores the body's access_token before looking at the status.
loginSettleStoresFirst(o) ==
    /\ authOp.kind = "login" /\ authOp.phase = "login"
    /\ authSettled' = o
    /\ IF o.kind = "reject"
       THEN /\ authResult' = AuthRaised("login")
            /\ authOp' = AuthIdle
            /\ UNCHANGED localStorage
       ELSE IF o.kind = "status"
       THEN /\ authResult' = AuthFailure("login",
                                IF o.detail # "" THEN o.detail ELSE "Login failed")
            /\ authOp' = AuthIdle
            /\ localStorage' = [localStorage EXCEPT !.authToken = <<o.token>>]
       ELSE /\ localStorage' = [localStorage EXCEPT !.authToken = <<o.token>>]
            /\ authOp' = [kind |-> "login", phase |-> "me", token |-> o.token, creds |-> FALSE]
            /\ authResult' = NoAuthResult
    /\ UNCHANGED <<user, userData, userType, activeChildId, activeChildLoading>>

\* The login exchange settles.  A rejected fetch is not caught: login
\* rejects.  Outside the success range: {success: false, message}.  In it:
\* the credential is stored and fetchUserData(null, token) is awaited.
loginSettle(o) ==
    /\ authOp.kind = "login" /\ authOp.phase = "login"
    /\ authSettled' = o
    /\ IF o.kind = "reject"
       THEN /\ authResult' = AuthRaised("login")
            /\ authOp' = AuthIdle
            /\ UNCHANGED localStorage
       ELSE IF o.kind = "status"
       THEN /\ authResult' = AuthFailure("login",
                                IF o.detail # "" THEN o.detail ELSE "Login failed")
            /\ authOp' = AuthIdle
            /\ UNCHANGED localStorage
       ELSE /\ localStorage' = [localStorage EXCEPT !.authToken = <<o.token>>]
            /\ authOp' = [kind |-> "login", phase |-> "me", token |-> o.token, creds |-> FALSE]
            /\ authResult' = NoAuthResult
    /\ UNCHANGED <<user, userData, userType, activeChildId, activeChildLoading>>

\* fetchUserData settles (it catches its own failures), then
\* return { success: true }.
loginMeSettle(o) ==
    /\ authOp.kind = "login" /\ authOp.phase = "me"
    /\ authSettled' = o
    /\ FetchUserDataSettle(o)
    /\ authResult' = AuthSuccess("login")
    /\ authOp' = AuthIdle

PopupMsg == "Firebase: Error (auth/popup-closed-by-user)."
NoUserMsg == "Cannot read properties of undefined (reading 'uid')"

loginWithGoogleBegin ==
    /\ authOp.kind = "idle"
    /\ authOp' = [kind |-> "google", phase |-> "popup", token |-> "", creds |-> FALSE]
    /\ authSettled' = NoAuthOutcome
    /\ authResult' = NoAuthResult
    /\ UNCHANGED <<user, userData, userType, activeChildId, activeChildLoading,
                   localStorage>>

\* signInWithPopup settles: a rejection lands in the catch.
loginWithGooglePopupSettle(o) ==
    /\ authOp.kind = "google" /\ authOp.phase = "popup"
    /\ authSettled' = o
    /\ IF o.kind = "reject"
       THEN /\ authResult' = AuthFailure("loginWithGoogle", PopupMsg)
            /\ authOp' = AuthIdle
       ELSE /\ authResult' = NoAuthResult
            /\ authOp' = [authOp EXCEPT !.phase = "sync"]
    /\ UNCHANGED <<user, userData, userType, activeChildId, activeChildLoading,
                   localStorage>>

\* The backend sync settles.  if (data.success): the token and
\* JSON.stringify(data.user) are stored, setUser(data.user), and
\* fetchUserData(data.user.uid) is awaited with the token read back from
\* local storage; evaluating data.user.uid on a body without user throws
\* after those writes and lands in the catch.  The render caused by setUser
\* runs the active-child effect against the profile still in memory.
loginWithGoogleSyncSettle(o) ==
    /\ authOp.kind = "google" /\ authOp.phase = "sync"
    /\ authSettled' = o
    /\ IF o.kind = "reject"
       THEN /\ authResult' = AuthFailure("loginWithGoogle", TransportMsg)
            /\ authOp' = AuthIdle
            /\ UNCHANGED <<user, localStorage, activeChildId>>
       ELSE IF ~o.success
       THEN /\ authResult' = AuthFailure("loginWithGoogle", "Backend sync failed")
            /\ authOp' = AuthIdle
            /\ UNCHANGED <<user, localStorage, activeChildId>>
       ELSE /\ localStorage' =
                 [localStorage EXCEPT !.authToken = <<o.token>>,
                                      !.authUser = IF o.user = <<>> THEN <<"undefined">>
                                                   ELSE o.user]
            /\ user' = o.user
            /\ activeChildId' = ActiveChildEffect(user', userData, localStorage', activeChildId)
            /\ IF o.user = <<>>
               THEN /\ authResult' = AuthFailure("loginWithGoogle", NoUserMsg)
                    /\ authOp' = AuthIdle
               ELSE /\ authResult' = NoAuthResult
                    /\ authOp' = [kind |-> "google", phase |-> "me", token |-> o.token, creds |-> FALSE]
    /\ activeChildLoading' = FALSE
    /\ UNCHANGED <<userData, userType>>

\* fetchUserData settles, then return { success: true, user: data.user }.
loginWithGoogleMeSettle(o) ==
    /\ authOp.kind = "google" /\ authOp.phase = "me"
    /\ authSettled' = o
    /\ FetchUserDataSettle(o)
    /\ authResult' = AuthSuccess("loginWithGoogle")
    /\ authOp' = AuthIdle

\* register(payload); hasCreds: payload.email && payload.password
registerBegin(hasCreds) ==
    /\ authOp.kind = "idle"
    /\ authOp' = [kind |-> "register", phase |-> "register", token |-> "",
                  creds |-> hasCreds]
    /\ authSettled' = NoAuthOutcome
    /\ authResult' = NoAuthResult
    /\ UNCHANGED <<user, userData, userType, activeChildId, activeChildLoading,
                   localStorage>>

\* The register exchange settles.  A rejected fetch is not caught.  Outside
\* the success range: {success: false, message}.  In it: with credentials
\* in the payload login(email, password) is called and awaited, without
\* them {success: true, user} is returned at once.
registerSettle(o) ==
    /\ authOp.kind = "register" /\ authOp.phase = "register"
    /\ authSettled' = o
    /\ IF o.kind = "reject"
       THEN /\ authResult' = AuthRaised("register")
            /\ authOp' = AuthIdle
       ELSE IF o.kind = "status"
       THEN /\ authResult' = AuthFailure("register",
                                IF o.detail # "" THEN o.detail ELSE "Registration failed")
            /\ authOp' = AuthIdle
       ELSE IF authOp.creds
       THEN /\ authResult' = NoAuthResult
            /\ authOp' = [authOp EXCEPT !.phase = "login"]
       ELSE /\ authResult' = AuthSuccess("register")
            /\ authOp' = AuthIdle
    /\ UNCHANGED <<user, userData, userType, activeChildId, activeChildLoading,
                   localStorage>>

\* A register that passes the outcome of its auto-login on to its caller.
registerLoginSettleReportsLogin(o) ==
    /\ authOp.kind = "register" /\ authOp.phase = "login"
    /\ authSettled' = o
    /\ IF o.kind = "reject"
       THEN /\ authResult' = AuthRaised("register")
            /\ authOp' = AuthIdle
            /\ UNCHANGED localStorage
       ELSE IF o.kind = "status"
       THEN /\ authResult' = AuthFailure("register",
                                IF o.detail # "" THEN o.detail ELSE "Login failed")
            /\ authOp' = AuthIdle
            /\ UNCHANGED localStorage
       ELSE /\ localStorage' = [localStorage EXCEPT !.authToken = <<o.token>>]
            /\ authOp' = [authOp EXCEPT !.phase = "me", !.token = o.token]
            /\ authResult' = NoAuthResult
    /\ UNCHANGED <<user, userData, userType, activeChildId, activeChildLoading>>

\* The login exchange of register's auto-login settles: a rejection raised
\* by login is caught by register's try/catch, a {success: false} login
\* result is ignored; both fall through to return {success: true, user}.
\* An accepted login stores the credential and awaits fetchUserData.
registerLoginSettle(o) ==
    /\ authOp.kind = "register" /\ authOp.phase = "login"
    /\ authSettled' = o
    /\ IF o.kind \in {"reject", "status"}
       THEN /\ authResult' = AuthSuccess("register")
            /\ authOp' = AuthIdle
            /\ UNCHANGED localStorage
       ELSE /\ localStorage' = [localStorage EXCEPT !.authToken = <<o.token>>]
            /\ authOp' = [authOp EXCEPT !.phase = "me", !.token = o.token]
            /\ authResult' = NoAuthResult
    /\ UNCHANGED <<user, userData, userType, activeChildId, activeChildLoading>>

\* The auto-login's fetchUserData settles; login returns {success: true}
\* and register returns {success: true, user}.
registerMeSettle(o) ==
    /\ authOp.kind = "register" /\ authOp.phase = "me"
    /\ authSettled' = o
    /\ FetchUserDataSettle(o)
    /\ authResult' = AuthSuccess("register")
    /\ authOp' = AuthIdle

\* refreshUserData: if (user) await fetchUserData(user.uid); without a
\* stored credential fetchUserData clears the profile and returns at once.
refreshUserDataBegin ==
    /\ authOp.kind = "idle"
    /\ user # <<>>
    /\ authSettled' = NoAuthOutcome
    /\ IF localStorage.authToken = <<>>
       THEN /\ userData' = <<>>
            /\ userType' = ""
            /\ activeChildId' = ActiveChildEffect(user, <<>>, localStorage, activeChildId)
            /\ activeChildLoading' = FALSE
            /\ authResult' = AuthUndefined("refreshUserData")
            /\ UNCHANGED <<user, localStorage, authOp>>
       ELSE /\ authOp' = [kind |-> "refresh", phase |-> "me",
                          token |-> localStorage.authToken[1], creds |-> FALSE]
            /\ authResult' = NoAuthResult
            /\ UNCHANGED <<user, userData, userType, activeChildId,
                           activeChildLoading, localStorage>>

refreshUserDataSettle(o) ==
    /\ authOp.kind = "refresh"
    /\ authSettled' = o
    /\ FetchUserDataSettle(o)
    /\ authResult' = AuthUndefined("refreshUserData")
    /\ authOp' = AuthIdle

\* A logout that leaves the selected child in memory.
logoutKeepsSelection ==
    /\ localStorage' = [localStorage EXCEPT !.authToken = <<>>, !.authUser = <<>>]
    /\ user' = <<>>
    /\ userData' = <<>>
    /\ userType' = ""
    /\ activeChildLoading' = FALSE
    /\ authSettled' = NoAuthOutcome
    /\ authResult' = AuthUndefined("logout")
    /\ UNCHANGED <<authOp, activeChildId>>

\* logout has no await: it runs to its end whenever it is called, also
\* while another session action is suspended on its request.
logout ==
    /\ localStorage' = [localStorage EXCEPT !.authToken = <<>>, !.authUser = <<>>]
    /\ user' = <<>>
    /\ userData' = <<>>
    /\ userType' = ""
    /\ activeChildId' = ""
    /\ activeChildLoading' = FALSE
    /\ authSettled' = NoAuthOutcome
    /\ authResult' = AuthUndefined("logout")
    /\ UNCHANGED authOp

\* The derived values of the context: activeChild (the key under which a
\* child profile is found, "" for null) and isTeacher.
activeChild ==
    IF userData = <<>> \/ activeChildId = "" THEN ""
    ELSE IF ~userData[1].hasChildren THEN ""
    ELSE IF InSeq(activeChildId, userData[1].children) THEN activeChildId
    ELSE ""

isTeacher == userType = "teacher"

\* A selection stored under one key for the whole device.
updateActiveChildOneKey(childId) ==
    /\ authOp.kind = "idle"
    /\ activeChildId' = childId
    /\ localStorage' =
         IF user # <<>>
         THEN [localStorage EXCEPT !.activeChild = [u \in Principals |-> childId]]
         ELSE localStorage
    /\ authSettled' = NoAuthOutcome
    /\ authResult' = AuthUndefined("setActiveChildId")
    /\ UNCHANGED <<user, userData, userType, activeChildLoading, authOp>>

\* setActiveChildId of the context value
updateActiveChild(childId) ==
    /\ authOp.kind = "idle"
    /\ activeChildId' = childId
    /\ localStorage' =
         IF user # <<>>
         THEN [localStorage EXCEPT !.activeChild[user[1]] = childId]
         ELSE localStorage
    /\ authSettled' = NoAuthOutcome
    /\ authResult' = AuthUndefined("setActiveChildId")
    /\ UNCHANGED <<user, userData, userType, activeChildLoading, authOp>>

\* ----------------------------------------------------- upload form actions
\* handleChange(field, value): the value is stored and a shown error of the
\* field is cleared.
handleChange(field, value) ==
    /\ formData' = [formData EXCEPT ![field] = value]
    /\ errors' = [errors EXCEPT ![field] = ""]
    /\ UNCHANGED <<showPreview, previewData, formOp>>

\* handleSave(status), from a button that is disabled while loading: on a
\* failed validate the error map is shown and nothing is sent; otherwise
\* createTemplate({...formData, status}) is called and awaited.
handleSave ==
    /\ ~loading /\ formOp.kind = "idle"
    /\ errors' = validate(formData).errors
    /\ IF validate(formData).isValid
       THEN /\ createTemplateBegin(1)
            /\ formOp' = [kind |-> "save", phase |-> "create"]
       ELSE UNCHANGED <<templateVars, formOp>>
    /\ UNCHANGED <<formData, showPreview, previewData>>

\* createTemplate has returned to handleSave: on success the form is reset.
handleSaveResume ==
    /\ formOp.kind = "save" /\ ops[1].kind = "idle"
    /\ formData' = IF lastResult.success THEN InitialForm ELSE formData
    /\ formOp' = FormIdle
    /\ UNCHANGED <<errors, showPreview, previewData, templateVars>>

\* handlePreview: the draft is created first, as in handleSave.
handlePreview ==
    /\ ~loading /\ formOp.kind = "idle"
    /\ errors' = validate(formData).errors
    /\ IF validate(formData).isValid
       THEN /\ createTemplateBegin(1)
            /\ formOp' = [kind |-> "preview", phase |-> "create"]
       ELSE UNCHANGED <<templateVars, formOp>>
    /\ UNCHANGED <<formData, showPreview, previewData>>

\* createTemplate has returned to handlePreview: on success
\* previewTemplate(result.data.template_id, 3) is called and awaited.
handlePreviewResume ==
    /\ formOp.kind = "preview" /\ formOp.phase = "create" /\ ops[1].kind = "idle"
    /\ IF lastResult.success
       THEN /\ previewTemplateBegin(1, CreatedId)
            /\ formOp' = [formOp EXCEPT !.phase = "preview"]
       ELSE /\ formOp' = FormIdle
            /\ UNCHANGED templateVars
    /\ UNCHANGED <<formData, errors, showPreview, previewData>>

\* previewTemplate has returned to handlePreview: on success the samples
\* are shown.
handlePreviewShow ==
    /\ formOp.kind = "preview" /\ formOp.phase = "preview" /\ ops[1].kind = "idle"
    /\ previewData' = IF lastResult.success THEN lastResult.samples ELSE previewData
    /\ showPreview' = (lastResult.success \/ showPreview)
    /\ formOp' = FormIdle
    /\ UNCHANGED <<formData, errors, templateVars>>

\* setShowPreview(false) of the preview modal
closePreview ==
    /\ showPreview
    /\ showPreview' = FALSE
    /\ UNCHANGED <<formData, errors, previewData, formOp, templateVars>>

\* ---------------------------------------------------------- specifications
\* Spec: the store used as its contract assumes, one asynchronous action at
\* a time (the caller awaits each before the next).
Alone(i) == i = 1 /\ Busy = {}

\* ConcSpec: up to MaxInFlight asynchronous actions overlap; a new action
\* takes the lowest free slot.
LowestFree(i) == ops[i].kind = "idle" /\ \A j \in 1..(i - 1) : ops[j].kind # "idle"

Settles ==
    \/ \E i \in Slots, o \in ListOutcomes : fetchTemplatesSettle(i, o) /\ UNCHANGED <<sessionVars, formVars, helperVars>>
    \/ \E i \in Slots, o \in CreateOutcomes : createTemplateSettle(i, o) /\ UNCHANGED <<sessionVars, formVars, helperVars>>
    \/ \E i \in Slots, o \in ListOutcomes : createTemplateRelistSettle(i, o) /\ UNCHANGED <<sessionVars, formVars, helperVars>>
    \/ \E i \in Slots : \E o \in RecordOutcomes(ops[i].id) : updateTemplateSettle(i, o) /\ UNCHANGED <<sessionVars, formVars, helperVars>>
    \/ \E i \in Slots, o \in DeleteOutcomes : deleteTemplateSettle(i, o) /\ UNCHANGED <<sessionVars, formVars, helperVars>>
    \/ \E i \in Slots : \E o \in RecordOutcomes(ops[i].id) : getTemplateSettle(i, o) /\ UNCHANGED <<sessionVars, formVars, helperVars>>
    \/ \E i \in Slots, o \in PreviewOutcomes : previewTemplateSettle(i, o) /\ UNCHANGED <<sessionVars, formVars, helperVars>>

FilterActions ==
    \/ \E p \in Patches : updateFilters(p) /\ UNCHANGED <<sessionVars, formVars, helperVars>>
    \/ clearFilters /\ UNCHANGED <<sessionVars, formVars, helperVars>>
    \/ loadMore /\ UNCHANGED <<sessionVars, formVars, helperVars>>

Next ==
    \/ Busy = {} /\ FilterActions
    \/ \E i \in Slots : Alone(i) /\ fetchTemplatesBegin(i) /\ UNCHANGED <<sessionVars, formVars, helperVars>>
    \/ \E i \in Slots : Alone(i) /\ createTemplateBegin(i) /\ UNCHANGED <<sessionVars, formVars, helperVars>>
    \/ \E i \in Slots, id \in TemplateIds : Alone(i) /\ updateTemplateBegin(i, id) /\ UNCHANGED <<sessionVars, formVars, helperVars>>
    \/ \E i \in Slots, id \in TemplateIds : Alone(i) /\ deleteTemplateBegin(i, id) /\ UNCHANGED <<sessionVars, formVars, helperVars>>
    \/ \E i \in Slots, id \in TemplateIds : Alone(i) /\ getTemplateBegin(i, id) /\ UNCHANGED <<sessionVars, formVars, helperVars>>
    \/ \E i \in Slots, id \in TemplateIds : Alone(i) /\ previewTemplateBegin(i, id) /\ UNCHANGED <<sessionVars, formVars, helperVars>>
    \/ Settles

Spec == Init /\ [][Next]_vars

ConcNext ==
    \/ \E i \in Slots : LowestFree(i) /\ fetchTemplatesBegin(i) /\ UNCHANGED <<sessionVars, formVars, helperVars>>
    \/ \E i \in Slots : LowestFree(i) /\ createTemplateBegin(i) /\ UNCHANGED <<sessionVars, formVars, helperVars>>
    \/ \E i \in Slots, id \in TemplateIds : LowestFree(i) /\ updateTemplateBegin(i, id) /\ UNCHANGED <<sessionVars, formVars, helperVars>>
    \/ \E i \in Slots, id \in TemplateIds : LowestFree(i) /\ deleteTemplateBegin(i, id) /\ UNCHANGED <<sessionVars, formVars, helperVars>>
    \/ \E i \in Slots, id \in TemplateIds : LowestFree(i) /\ getTemplateBegin(i, id) /\ UNCHANGED <<sessionVars, formVars, helperVars>>
    \/ \E i \in Slots, id \in TemplateIds : LowestFree(i) /\ previewTemplateBegin(i, id) /\ UNCHANGED <<sessionVars, formVars, helperVars>>
    \/ Settles
    \/ FilterActions

ConcSpec == Init /\ [][ConcNext]_vars

\* ListRaceSpec: list requests of one store overlap (a filter change or a
\* second caller re-issues the list while one is outstanding).  A request is
\* issued in the slot above those outstanding, so a lower slot was issued
\* earlier; responses arrive in any order.
IssuedInOrder(i) ==
    /\ \A j \in Slots : j < i => ops[j].kind # "idle"
    /\ \A j \in Slots : j >= i => ops[j].kind = "idle"

ListRaceNext ==
    \/ \E i \in Slots : IssuedInOrder(i) /\ fetchTemplatesBegin(i) /\ UNCHANGED <<sessionVars, formVars, helperVars>>
    \/ \E i \in Slots, o \in ListOutcomes : fetchTemplatesSettle(i, o) /\ UNCHANGED <<sessionVars, formVars, helperVars>>
    \/ \E p \in Patches : updateFilters(p) /\ UNCHANGED <<sessionVars, formVars, helperVars>>

ListRaceSpec == Init /\ [][ListRaceNext]_vars

\* OverlapSpec: two actions of one store overlap (a list refresh, a
\* get-by-id, an update and a delete issued in quick succession).  As in
\* ListRaceSpec the lower slot was issued earlier and responses arrive in
\* any order.
Pair == {1, 2}

\* The exchanges of OverlapSpec: a request fails by rejection or succeeds
\* (the other ways to fail are followed one action at a time in Spec).
Plain(outcomes) == {o \in outcomes : o.kind = "reject" \/ (o.kind = "ok" /\ o.success)}

OverlapNext ==
    \/ \E i \in Pair : IssuedInOrder(i) /\ fetchTemplatesBegin(i) /\ UNCHANGED <<sessionVars, formVars, helperVars>>
    \/ \E i \in Pair, id \in TemplateIds : IssuedInOrder(i) /\ getTemplateBegin(i, id) /\ UNCHANGED <<sessionVars, formVars, helperVars>>
    \/ \E i \in Pair, id \in TemplateIds : IssuedInOrder(i) /\ updateTemplateBegin(i, id) /\ UNCHANGED <<sessionVars, formVars, helperVars>>
    \/ \E i \in Pair, id \in TemplateIds : IssuedInOrder(i) /\ deleteTemplateBegin(i, id) /\ UNCHANGED <<sessionVars, formVars, helperVars>>
    \/ \E i \in Pair, o \in Plain(ListOutcomes) : fetchTemplatesSettle(i, o) /\ UNCHANGED <<sessionVars, formVars, helperVars>>
    \/ \E i \in Pair : \E o \in Plain(RecordOutcomes(ops[i].id)) : getTemplateSettle(i, o) /\ UNCHANGED <<sessionVars, formVars, helperVars>>
    \/ \E i \in Pair : \E o \in Plain(RecordOutcomes(ops[i].id)) : updateTemplateSettle(i, o) /\ UNCHANGED <<sessionVars, formVars, helperVars>>
    \/ \E i \in Pair, o \in Plain(DeleteOutcomes) : deleteTemplateSettle(i, o) /\ UNCHANGED <<sessionVars, formVars, helperVars>>

OverlapSpec == Init /\ [][OverlapNext]_vars

\* FormSpec: the upload form driving the store, one interaction at a time;
\* the user fills the form from top to bottom (a field is typed into once
\* those above it have been) and may submit at any point.
FilledAbove(k) == \A j \in 1..(k - 1) : formData[FormOrder[j]] # Empty

FormNext ==
    \/ \E k \in 1..Len(FormOrder) : \E v \in FieldValues(FormOrder[k]) :
          /\ formOp.kind = "idle" /\ FilledAbove(k)
          /\ handleChange(FormOrder[k], v)
          /\ UNCHANGED <<templateVars, sessionVars, helperVars>>
    \/ handleSave /\ UNCHANGED <<sessionVars, helperVars>>
    \/ handleSaveResume /\ UNCHANGED <<sessionVars, helperVars>>
    \/ handlePreview /\ UNCHANGED <<sessionVars, helperVars>>
    \/ handlePreviewResume /\ UNCHANGED <<sessionVars, helperVars>>
    \/ handlePreviewShow /\ UNCHANGED <<sessionVars, helperVars>>
    \/ closePreview /\ UNCHANGED <<sessionVars, helperVars>>
    \/ \E o \in CreateOutcomes : createTemplateSettle(1, o) /\ UNCHANGED <<sessionVars, formVars, helperVars>>
    \/ \E o \in ListOutcomes : createTemplateRelistSettle(1, o) /\ UNCHANGED <<sessionVars, formVars, helperVars>>
    \/ \E o \in PreviewOutcomes : previewTemplateSettle(1, o) /\ UNCHANGED <<sessionVars, formVars, helperVars>>

FormSpec == Init /\ [][FormNext]_vars

\* SessionSpec: the session store, one action at a time.
SessionNext ==
    \/ loginBegin /\ UNCHANGED <<templateVars, formVars, helperVars>>
    \/ \E o \in LoginOutcomes : loginSettle(o) /\ UNCHANGED <<templateVars, formVars, helperVars>>
    \/ \E o \in MeOutcomes(authOp.token) : loginMeSettle(o) /\ UNCHANGED <<templateVars, formVars, helperVars>>
    \/ loginWithGoogleBegin /\ UNCHANGED <<templateVars, formVars, helperVars>>
    \/ \E o \in PopupOutcomes : loginWithGooglePopupSettle(o) /\ UNCHANGED <<templateVars, formVars, helperVars>>
    \/ \E o \in SyncOutcomes : loginWithGoogleSyncSettle(o) /\ UNCHANGED <<templateVars, formVars, helperVars>>
    \/ \E o \in MeOutcomes(authOp.token) : loginWithGoogleMeSettle(o) /\ UNCHANGED <<templateVars, formVars, helperVars>>
    \/ \E c \in BOOLEAN : registerBegin(c) /\ UNCHANGED <<templateVars, formVars, helperVars>>
    \/ \E o \in RegisterOutcomes : registerSettle(o) /\ UNCHANGED <<templateVars, formVars, helperVars>>
    \/ \E o \in LoginOutcomes : registerLoginSettle(o) /\ UNCHANGED <<templateVars, formVars, helperVars>>
    \/ \E o \in MeOutcomes(authOp.token) : registerMeSettle(o) /\ UNCHANGED <<templateVars, formVars, helperVars>>
    \/ refreshUserDataBegin /\ UNCHANGED <<templateVars, formVars, helperVars>>
    \/ \E o \in MeOutcomes(authOp.token) : refreshUserDataSettle(o) /\ UNCHANGED <<templateVars, formVars, helperVars>>
    \/ logout /\ UNCHANGED <<templateVars, formVars, helperVars>>
    \/ \E c \in ChildArgs : updateActiveChild(c) /\ UNCHANGED <<templateVars, formVars, helperVars>>

SessionSpec == Init /\ [][SessionNext]_vars

\* HelperSpec: the pure helpers, each applied to an argument drawn from its
\* bounded input set; the stores stay as constructed.
Apply(fn, arg, out) ==
    /\ call' = [fn |-> fn, nth |-> 1, arg |-> arg, out |-> out, first |-> <<>>]
    /\ UNCHANGED <<templateVars, sessionVars, formVars>>

\* sanitizeTemplateData applied to its own result.
sanitizeAgain ==
    /\ call.fn = "sanitizeTemplateData" /\ call.nth = 1
    /\ call' = [call EXCEPT !.nth = 2, !.arg = call.out,
                            !.out = sanitizeTemplateData(call.out),
                            !.first = call.arg]
    /\ UNCHANGED <<templateVars, sessionVars, formVars>>

HelperNext ==
    \/ call = NoCall /\ \E d \in Drafts :
          Apply("validateTemplateForm", d, validateTemplateForm(d))
    \/ call = NoCall /\ \E d \in RawRecords :
          Apply("sanitizeTemplateData", d, sanitizeTemplateData(d))
    \/ sanitizeAgain
    \/ call = NoCall /\ \E api \in ApiOps, t \in StoredTokens : \E o \in OutcomesOf(api) :
          Apply("request", [api |-> api, token |-> t, outcome |-> o],
                [headers |-> getAuthHeaders(t), result |-> ServiceCall(api, o)])
    \/ call = NoCall /\ \E k \in LookupArgs :
          Apply("getDifficultyColor", k, getDifficultyColor(k))
    \/ call = NoCall /\ \E k \in LookupArgs :
          Apply("getStatusBadge", k, getStatusBadge(k))
    \/ call = NoCall /\ \E k \in LookupArgs :
          Apply("formatQuestionType", k, formatQuestionType(k))
    \/ call = NoCall /\ \E k \in LookupArgs :
          Apply("getQuestionTypeIcon", k, getQuestionTypeIcon(k))

HelperSpec == Init /\ [][HelperNext]_vars

\* ------------------------------------------------------------------ claims
\* The step in which the action of slot i returns to its caller.
Returns(i, kind) == ops[i].kind = kind /\ ops'[i].kind = "idle"

\* The exchange failed as seen by the store: an exception, a status outside
\* the success range, or a body whose success indicator is false.
Failed(o) == o.kind \in {"reject", "status"} \/ ~o.success

\* The message of the error such an exchange raises in action `api`.
MessageOf(api, o) ==
    IF o.kind = "reject" THEN TransportMsg
    ELSE IF o.errmsg # "" THEN o.errmsg
    ELSE DefaultMsg(api)

\* The step in which slot i enters action `kind`.
Enters(i, kind) == ops[i].kind = "idle" /\ ops'[i].kind = kind

FilterOps == {"updateFilters", "clearFilters", "loadMore"}
MutatingOps == {"create", "update", "delete", "get", "preview"}
\* C1: when deleteTemplate(X) returns after a successful backend delete, the
\* collection has no element with template_id = X, it is the old collection
\* without those elements (others kept, same order), and the selection is
\* empty if the selected template had template_id = X.
C1_DeleteRemovesById ==
    [][\A i \in Slots :
        (Returns(i, "delete") /\ lastResult'.success)
        => /\ \A k \in 1..Len(templates') : templates'[k].template_id # ops[i].id
           /\ templates' = SelectSeq(templates, LAMBDA t : t.template_id # ops[i].id)
           /\ (Selected(currentTemplate, ops[i].id) => currentTemplate' = <<>>)]_vars

\* A successful delete has returned, has cleared the selection and has left
\* another element in the collection.
C1_Witness ==
    /\ lastResult.op = "delete" /\ lastResult.success
    /\ currentTemplate = <<>>
    /\ templates # <<>>

\* C2: when updateTemplate(X, patch) returns success, the element with
\* template_id = X is the server-returned record, every other element, the
\* order and the length are unchanged (nothing inserted when X is absent), no
\* list request is outstanding that was not before, and the selection is
\* replaced by the returned record iff its template_id = X.
C2_UpdateReplacesInPlace ==
    [][\A i \in Slots :
        (Returns(i, "update") /\ lastResult'.success)
        => /\ Len(settled'.rec) = 1
           /\ Len(templates') = Len(templates)
           /\ \A k \in 1..Len(templates) :
                 templates'[k] = IF templates[k].template_id = ops[i].id
                                 THEN settled'.rec[1] ELSE templates[k]
           /\ \A j \in Slots : ops'[j].api = "list" => ops[j].api = "list"
           /\ currentTemplate' = IF Selected(currentTemplate, ops[i].id)
                                  THEN settled'.rec ELSE currentTemplate]_vars

\* A successful update has returned; the returned record is in a collection
\* of two elements and is the selection.
C2_Witness ==
    /\ lastResult.op = "update" /\ lastResult.success
    /\ Len(templates) = 2
    /\ \E k \in 1..Len(templates) : <<templates[k]>> = settled.rec
    /\ currentTemplate = settled.rec

\* C3: fetchTemplates requests the list with the current filter set (every
\* truthy filter as a parameter); if the exchange succeeds the collection and
\* total-count become those of the response; if it fails the collection is
\* empty and the error slot holds the error message; loading is false when
\* it returns.
C3_ListReplacesOrClears ==
    [][\A i \in Slots :
        /\ Enters(i, "list")
           => /\ ops'[i].api = "list"
              /\ DOMAIN ops'[i].params = {k \in DOMAIN filters : Truthy(k, filters[k])}
              /\ \A k \in DOMAIN ops'[i].params : ops'[i].params[k] = filters[k]
        /\ Returns(i, "list")
           => /\ loading' = FALSE
              /\ IF Failed(settled')
                 THEN /\ templates' = <<>>
                      /\ error' = Str(MessageOf("list", settled'))
                 ELSE /\ templates' = (IF settled'.hasData THEN settled'.templates ELSE <<>>)
                      /\ totalCount' = (IF settled'.hasData THEN settled'.total ELSE 0)]_vars

\* A list has failed after an earlier one had succeeded: the collection is
\* empty, the error slot holds the message, the old total-count remains.
C3_Witness ==
    /\ lastResult.op = "list" /\ settled.kind = "status"
    /\ templates = <<>> /\ error.t = "string" /\ totalCount = 7
    /\ ~loading

\* C4: when the create call succeeds the action does not return but issues a
\* list request and the collection is untouched; createTemplate returns
\* success only from the settling of that list request, and the collection
\* is then exactly what the re-list produced.
C4_CreateRelists ==
    [][\A i \in Slots :
        /\ (ops[i].kind = "create" /\ ops[i].api = "create" /\ ops'[i] # ops[i]
              /\ ~Failed(settled'))
           => /\ ops'[i].kind = "create" /\ ops'[i].api = "list"
              /\ lastResult'.kind = "none"
              /\ templates' = templates
        /\ (Returns(i, "create") /\ lastResult'.success)
           => /\ ops[i].api = "list"
              /\ templates' = (IF Failed(settled') \/ ~settled'.hasData
                                THEN <<>> ELSE settled'.templates)]_vars

\* createTemplate has returned success and the collection is the non-empty
\* page of the re-list.
C4_Witness ==
    /\ lastResult.op = "create" /\ lastResult.success
    /\ settled.kind = "ok" /\ settled.hasData
    /\ templates # <<>> /\ templates = settled.templates

\* C5: a create, update, delete, get-by-id or preview whose API call fails
\* returns a failure and leaves the collection, the selection, the filter set
\* and the total-count as they were when it was entered.
C5_FailureLeavesStateIntact ==
    [][\A i \in Slots : \A k \in MutatingOps :
        /\ Enters(i, k)
           => UNCHANGED <<templates, currentTemplate, filters, totalCount>>
        /\ (ops[i].kind = k /\ ops[i].api = k /\ ops'[i] # ops[i] /\ Failed(settled'))
           => /\ Returns(i, k)
              /\ lastResult'.kind = "struct" /\ ~lastResult'.success
              /\ UNCHANGED <<templates, currentTemplate, filters, totalCount>>]_vars

\* An update has failed with a collection and a selection in place.
C5_Witness ==
    /\ lastResult.op = "update" /\ lastResult.kind = "struct" /\ ~lastResult.success
    /\ templates # <<>> /\ currentTemplate # <<>> /\ totalCount = 7
    /\ error.t = "string"

\* C6: updateFilters(P) leaves offset = 0, gives every field of P other than
\* offset P's value, keeps every field not in P, and leaves the collection,
\* selection, busy flag, error and total-count untouched.
C6_UpdateFiltersMerges ==
    [][lastResult'.op = "updateFilters"
        => /\ filters'.offset = 0
           /\ DOMAIN filters' = DOMAIN filters \cup DOMAIN lastResult'.patch
           /\ \A k \in DOMAIN lastResult'.patch \ {"offset"} :
                 filters'[k] = lastResult'.patch[k]
           /\ \A k \in DOMAIN filters \ (DOMAIN lastResult'.patch \cup {"offset"}) :
                 filters'[k] = filters[k]
           /\ UNCHANGED <<templates, currentTemplate, loading, error, totalCount>>]_vars

\* A patch carrying an offset has been applied: offset is 0 and module, not
\* in the patch, keeps its non-default value.
C6_Witness ==
    /\ lastResult.op = "updateFilters"
    /\ "offset" \in DOMAIN lastResult.patch /\ lastResult.patch.offset # 0
    /\ filters.offset = 0 /\ filters.module = "Math"

\* C7: no step of previewTemplate, entering or returning, on success or on
\* failure, changes the collection, the selection, the filter set or the
\* total-count; on success the samples of the response are returned.
C7_PreviewLeavesStoreAlone ==
    [][\A i \in Slots :
        ((ops[i].kind = "preview" \/ ops'[i].kind = "preview") /\ ops'[i] # ops[i])
        => /\ UNCHANGED <<templates, currentTemplate, filters, totalCount>>
           /\ (Returns(i, "preview") /\ lastResult'.success)
              => lastResult'.samples = settled'.samples]_vars

\* A preview has returned its samples with a collection and a selection in
\* place.
C7_Witness ==
    /\ lastResult.op = "preview" /\ lastResult.success
    /\ lastResult.samples = PreviewCount
    /\ templates # <<>> /\ currentTemplate # <<>>

\* C8: with one asynchronous action at a time, loading is true exactly while
\* an action is in flight (from its entry, across the re-list of create, to
\* its return) and false whenever none is, after success and after failure.
C8_BusyIffInFlight == loading <=> (Busy # {})

\* An action has returned a failure and the busy flag is down.
C8_Witness ==
    /\ lastResult.kind = "struct" /\ ~lastResult.success
    /\ Busy = {} /\ ~loading

\* C9 as stated: every operation, the filter actions included, leaves the
\* error slot empty when it starts, and the slot is always null or a string.
C9_EveryOperationClearsError ==
    [][/\ (lastResult'.op \in FilterOps \/ \E i \in Slots : \E k \in MutatingOps \cup {"list"} : Enters(i, k))
          => error' = Null
       /\ error'.t \in {"null", "string"}]_vars

\* C9 amended: every asynchronous operation (list, create and its re-list,
\* update, delete, get-by-id, preview) clears the error slot on entry; the
\* filter actions leave it as it is; the slot is always null or a string,
\* and a failure sets it to the string of the error's message.
C9_ErrorSlot ==
    [][/\ (\E i \in Slots : \E k \in MutatingOps \cup {"list"} : Enters(i, k))
          => error' = Null
       /\ (\E i \in Slots : ops[i].api = "create" /\ ops'[i].api = "list")
          => error' = Null
       /\ lastResult'.op \in FilterOps => error' = error
       /\ error'.t \in {"null", "string"}
       /\ \A i \in Slots :
            (ops[i].kind # "idle" /\ ops'[i] # ops[i] /\ Failed(settled'))
            => error' = Str(MessageOf(ops[i].api, settled'))]_vars

\* A filter action has run while the error of an earlier failure is still in
\* the slot.
C9_Witness ==
    /\ lastResult.op \in FilterOps
    /\ error.t = "string"

\* The store actions that wait on a request.
RequestOps == MutatingOps \cup {"list"}
AuthRequestOps == {"login", "refreshUserData"}
AuthFailed(o) == o.kind \in {"reject", "status"}

\* C10: every action of the template store and of the session store that
\* waits on a request returns a structure to its caller, never nothing and
\* never an exception: success = false with an error message when the
\* request failed, success = true when it succeeded.
C10_ActionsReturnStructures ==
    /\ (lastResult.kind # "none" /\ lastResult.op \in RequestOps)
       => /\ lastResult.kind = "struct"
          /\ Failed(settled) => (~lastResult.success /\ lastResult.error.t = "string"
                                    /\ lastResult.error.v # "")
          /\ ~Failed(settled) => lastResult.success
    /\ (authResult.kind # "none" /\ authResult.op \in AuthRequestOps)
       => /\ authResult.kind = "struct"
          /\ AuthFailed(authSettled) => (~authResult.success /\ authResult.message # "")
          /\ ~AuthFailed(authSettled) => authResult.success

\* C11: when list requests overlap, each response that arrives with data
\* replaces the collection and the total-count, whatever requests were
\* issued before or after it and whether or not their responses have
\* already arrived: the response of an earlier-issued request that arrives
\* after the response of a later-issued one overwrites the later one's data,
\* so what remains when all have completed is what arrived last.
C11_LastArrivalWins ==
    [][\A i \in Slots :
        (Returns(i, "list") /\ ~Failed(settled'))
        => /\ templates' = (IF settled'.hasData THEN settled'.templates ELSE <<>>)
           /\ totalCount' = (IF settled'.hasData THEN settled'.total ELSE 0)
           /\ (\A j \in Slots : j # i => ops'[j] = ops[j])]_vars

\* The response of the later-issued list request has arrived first and its
\* page is in the store, while the earlier request, issued under another
\* filter set, is still outstanding: its response will land on that page.
C11_Witness ==
    /\ ops[1].kind = "list" /\ ops[1].params # QueryParams(filters)
    /\ \A j \in Slots : j > 1 => ops[j].kind = "idle"
    /\ lastResult.op = "list" /\ settled.kind = "ok" /\ settled.hasData
    /\ templates # <<>> /\ templates = settled.templates

\* The step in which the login exchange of a login call settles.
LoginExchangeSettles ==
    authOp.kind = "login" /\ authOp.phase = "login" /\ authSettled'.kind # "none"

\* C12: login leaves the stored credential, the cached profile and the
\* in-memory principal, profile and role untouched when it is entered; if
\* the backend answers outside the success range they are still untouched
\* and login returns {success: false, message} with the body's detail or
\* "Login failed"; if the backend accepts, the returned credential is
\* stored in that step, nothing else changes, login has not returned and the
\* current-user request it then waits on carries that credential.
C12_LoginStoresOnlyOnAccept ==
    [][/\ (authOp.kind = "idle" /\ authOp'.kind = "login")
          => UNCHANGED <<localStorage, user, userData, userType>>
       /\ (LoginExchangeSettles /\ authSettled'.kind = "status")
          => /\ UNCHANGED <<localStorage, user, userData, userType>>
             /\ authResult' = AuthFailure("login",
                    IF authSettled'.detail # "" THEN authSettled'.detail
                    ELSE "Login failed")
             /\ authOp'.kind = "idle"
       /\ (LoginExchangeSettles /\ authSettled'.kind = "ok")
          => /\ localStorage'.authToken = <<authSettled'.token>>
             /\ localStorage'.authUser = localStorage.authUser
             /\ UNCHANGED <<user, userData, userType>>
             /\ authResult'.kind = "none"
             /\ authOp'.kind = "login" /\ authOp'.phase = "me"
             /\ authOp'.token = authSettled'.token]_vars

\* A signed-in principal's login attempt was rejected with a server message:
\* the session of before is still there.
C12_Witness ==
    /\ authResult = AuthFailure("login", "Invalid credentials")
    /\ authSettled.kind = "status"
    /\ user # <<>> /\ userData # <<>> /\ userType # ""
    /\ localStorage.authToken # <<>> /\ localStorage.authUser # <<>>

\* C13: whenever loginWithGoogle returns a failure, the stored credential,
\* the cached profile snapshot and the in-memory principal, profile and role
\* are what they were before the call (no step of the call before the
\* failing one writes, so: the failing step leaves them unchanged).
C13_GoogleFailureLeavesNoTrace ==
    [][/\ (authOp.kind = "google" /\ authResult'.kind = "none" /\ authOp'.phase # "me")
          => UNCHANGED <<localStorage, user, userData, userType>>
       /\ (authResult'.op = "loginWithGoogle" /\ authResult'.kind = "struct"
             /\ ~authResult'.success)
          => UNCHANGED <<localStorage, user, userData, userType>>]_vars

\* C14: when the backend accepts the registration of a payload that has an
\* email and a password, register does not return in that step but waits on
\* the login exchange of its auto-login; whatever that login comes to
\* (accepted and the profile fetched, answered outside the success range,
\* or raised on a failed request) register then returns success = true.
\* When the backend rejects the registration, register returns at once with
\* success = false and the body's detail or "Registration failed", no login
\* exchange is started and local storage is untouched.
C14_RegisterReportsAccountNotSession ==
    [][/\ (authOp.kind = "register" /\ authOp.phase = "register" /\ authOp.creds
             /\ authSettled'.kind = "ok")
          => /\ authResult'.kind = "none"
             /\ authOp'.kind = "register" /\ authOp'.phase = "login"
       /\ (authOp.kind = "register" /\ authOp.phase = "login" /\ authSettled'.kind # "none")
          => IF authSettled'.kind = "ok"
             THEN authResult'.kind = "none" /\ authOp'.phase = "me"
             ELSE authResult' = AuthSuccess("register")
       /\ (authOp.kind = "register" /\ authOp.phase = "me" /\ authSettled'.kind # "none")
          => authResult' = AuthSuccess("register")
       /\ (authOp.kind = "register" /\ authOp.phase = "register"
             /\ authSettled'.kind = "status")
          => /\ authResult' = AuthFailure("register",
                    IF authSettled'.detail # "" THEN authSettled'.detail
                    ELSE "Registration failed")
             /\ authOp'.kind = "idle"
             /\ UNCHANGED localStorage]_vars

\* register has returned success although the request of its auto-login
\* failed: the account exists, no credential is stored.
C14_Witness ==
    /\ authResult = AuthSuccess("register")
    /\ authSettled.kind = "reject"
    /\ localStorage.authToken = <<>> /\ user = <<>>

\* The current-user body the step just taken consumed, if any.
ProfileLoaded == authSettled.kind = "ok" /\ authSettled.api.user_id # ""

\* C15: right after a current-user response has been normalized: if its
\* role is student (role field, else user_type field, else the default) and
\* its children mapping is absent or empty, the profile's children mapping
\* has exactly one key, the user's own identifier; for any other role but
\* teacher, and for a student with a non-empty mapping, the profile's
\* children mapping exists and has the backend's keys in the backend's
\* order (none when the backend supplied no mapping).
C15_StudentIsOwnChild ==
    ProfileLoaded
    => LET a == authSettled.api
           student == \/ a.role = "student"
                      \/ (a.role = "" /\ a.user_type \in {"", "student"})
           teacher == \/ a.role = "teacher"
                      \/ (a.role = "" /\ a.user_type = "teacher")
       IN  /\ userData # <<>>
           /\ (student /\ a.children = <<>>)
              => userData[1].children = <<a.user_id>>
           /\ (~teacher /\ ~(student /\ a.children = <<>>))
              => /\ userData[1].hasChildren
                 /\ userData[1].children = a.children

\* A student whose body carries an empty children mapping has been loaded
\* and is their own single child.
C15_Witness ==
    /\ ProfileLoaded
    /\ authSettled.api = ApiData("s1", "student", "", TRUE, <<>>)
    /\ userData # <<>> /\ userData[1].children = <<"s1">>
    /\ activeChildId = "s1"

\* The children mapping of the profile in memory (its keys, in order).
ChildKeys ==
    IF userData # <<>> /\ userData[1].hasChildren THEN userData[1].children ELSE <<>>

\* C16: whenever no session action is in flight and the profile's children
\* mapping is non-empty, the active child identifier is a key of that
\* mapping.
C16_ActiveChildIsKey ==
    (authOp.kind = "idle" /\ user # <<>> /\ ChildKeys # <<>>)
    => InSeq(activeChildId, ChildKeys)

\* The step in which a current-user response with a non-empty children
\* mapping is loaded.
LoadsChildren ==
    /\ authOp.phase = "me" /\ authSettled'.kind = "ok"
    /\ userData' # <<>> /\ userData'[1].hasChildren /\ userData'[1].children # <<>>

\* C17: on a profile load with a non-empty children mapping, a stored child
\* identifier of this principal that is a key of the mapping becomes the
\* active child; otherwise the first key becomes active and is written to
\* local storage under the principal's key.
C17_DefaultChildIsPersisted ==
    [][LoadsChildren
       => LET uid == user'[1]
              keys == userData'[1].children
              stored == localStorage.activeChild[uid]
          IN  IF stored # "" /\ InSeq(stored, keys)
              THEN activeChildId' = stored
              ELSE /\ activeChildId' = keys[1]
                   /\ localStorage'.activeChild[uid] = keys[1]]_vars

\* C18: the value stored for a principal changes only in a child selection
\* made while that principal is signed in, and becomes the selected
\* identifier; no selection, logout or login changes the value stored for
\* anyone else; and a principal whose stored identifier is still a key of
\* the children mapping gets it back as active child on the next profile
\* load, whoever used the device in between.
C18_SelectionsArePerPrincipal ==
    [][/\ \A u \in Principals :
            localStorage'.activeChild[u] # localStorage.activeChild[u]
            => /\ user = <<u>>
               /\ authResult'.op = "setActiveChildId"
               /\ localStorage'.activeChild[u] = activeChildId'
       /\ (LoadsChildren /\ localStorage.activeChild[user'[1]] # ""
              /\ InSeq(localStorage.activeChild[user'[1]], userData'[1].children))
          => activeChildId' = localStorage.activeChild[user'[1]]]_vars

\* Principal p1 has logged in again and has the second child back, the one
\* selected in an earlier session; s1 has a selection of their own stored on
\* the same device.
C18_Witness ==
    /\ authResult = AuthSuccess("login") /\ user = <<"p1">>
    /\ ChildKeys = <<"c1", "c2">>
    /\ localStorage.activeChild["p1"] = "c2" /\ activeChildId = "c2"
    /\ localStorage.activeChild["s1"] = "c1"

\* C19: right after logout has returned, whatever was in flight or stored:
\* no bearer credential and no profile snapshot in local storage; principal,
\* profile, role and active child identifier empty; the derived active child
\* null and the teacher flag false.
C19_LogoutClearsSession ==
    authResult.op = "logout"
    => /\ localStorage.authToken = <<>> /\ localStorage.authUser = <<>>
       /\ user = <<>> /\ userData = <<>> /\ userType = "" /\ activeChildId = ""
       /\ activeChild = "" /\ ~isTeacher

\* logout has returned while a login was waiting for the profile, on a
\* device that keeps a child selection for p1.
C19_Witness ==
    /\ authResult.op = "logout"
    /\ authOp.kind = "login" /\ authOp.phase = "me"
    /\ localStorage.activeChild["p1"] = "c2"
    /\ user = <<>> /\ localStorage.authToken = <<>>

\* C20: a create request leaves the upload form (through Save or Preview)
\* only for a draft that passes validateTemplateForm: no required field
\* empty or whitespace-only, module/category/topic/subtopic of at most 100
\* characters, format of at most 200, scripts of at least 10; for any other
\* draft the handler shows a non-empty error map and sends nothing.
C20_InvalidDraftNeverSent ==
    [][/\ (ops[1].kind = "idle" /\ ops'[1].kind = "create")
          => validateTemplateForm(formData).isValid
       /\ (formOp.kind = "idle" /\ ~loading /\ errors' # errors
             /\ formData' = formData /\ ~validateTemplateForm(formData).isValid)
          => (errors' # NoErrors /\ ops'[1].kind = "idle")]_vars

\* C21: validateTemplateForm puts every field of the nine that is missing,
\* empty or whitespace-only into the error map and answers isValid false;
\* a draft with all nine non-empty after trimming, the four names at most
\* 100 characters, format at most 200 and both scripts at least 10 gets an
\* empty error map and isValid true; isValid is true exactly when the error
\* map is empty.
Unfilled(d, f) == f \notin DOMAIN d \/ d[f].trim = 0

WithinBounds(d) ==
    /\ \A f \in RequiredFields : ~Unfilled(d, f)
    /\ \A f \in NameFields : d[f].len <= MaxNameLen
    /\ d["format"].len <= MaxFormatLen
    /\ \A f \in CodeFields : d[f].len >= MinCodeLen

C21_ValidateTemplateForm ==
    call.fn = "validateTemplateForm" =>
        /\ \A f \in RequiredFields :
              Unfilled(call.arg, f) => call.out.errors[f] # "" /\ ~call.out.isValid
        /\ WithinBounds(call.arg) => call.out.errors = NoErrors /\ call.out.isValid
        /\ call.out.isValid <=> call.out.errors = NoErrors

C21_Witness ==
    /\ call.fn = "validateTemplateForm"
    /\ "type" \notin DOMAIN call.arg
    /\ "module" \in DOMAIN call.arg /\ call.arg["module"] = Blank
    /\ call.out.errors["type"] = RequiredMsg("type")
    /\ call.out.errors["module"] = RequiredMsg("module")
    /\ ~call.out.isValid

\* C22: sanitizeTemplateData is idempotent (applied to its own result it
\* returns that result), and each of its nine output fields is a string
\* with no whitespace at either end, the empty string for a missing field.
IsString(s) == DOMAIN s = 1..Len(s) /\ \A i \in 1..Len(s) : s[i] \in Chars
IsTrimmed(s) == s = <<>> \/ (s[1] # " " /\ s[Len(s)] # " ")

C22_SanitizeIdempotent ==
    call.fn = "sanitizeTemplateData" =>
        /\ DOMAIN call.out = RequiredFields
        /\ \A f \in RequiredFields :
              /\ IsString(call.out[f]) /\ IsTrimmed(call.out[f])
              /\ f \notin DOMAIN call.arg => call.out[f] = <<>>
        /\ call.nth = 2 => call.out = call.arg

C22_Witness ==
    /\ call.fn = "sanitizeTemplateData" /\ call.nth = 2
    /\ "type" \notin DOMAIN call.first
    /\ "module" \in DOMAIN call.first /\ call.first["module"] = <<" ", "a", " ">>
    /\ call.arg["module"] = <<"a">> /\ call.arg["type"] = <<>>
    /\ call.out = call.arg

\* C23: each lookup helper returns its documented default for every key
\* outside its enumeration, absent keys and keys that differ from an
\* enumerated value only in letter case included: the gray for
\* getDifficultyColor, the draft badge for getStatusBadge, the question mark
\* for getQuestionTypeIcon, the key itself for formatQuestionType.
Outside(table) == {a \in LookupArgs : a = <<>> \/ a[1] \notin DOMAIN table}

C23_LookupDefaults ==
    /\ call.fn = "getDifficultyColor" /\ call.arg \in Outside(colors)
          => call.out = Str(DefaultColor)
    /\ call.fn = "getStatusBadge" /\ call.arg \in Outside(badges)
          => call.out = Str(badges.draft)
    /\ call.fn = "getQuestionTypeIcon" /\ call.arg \in Outside(icons)
          => call.out = Str(DefaultIcon)
    /\ call.fn = "formatQuestionType" /\ call.arg \in Outside(types)
          => call.out = (IF call.arg = <<>> THEN JsUndefined ELSE Str(call.arg[1]))

\* C24 (as stated): every operation of the API client fails, on a response
\* outside the success range, with an error whose message is the body's
\* error.message or the operation's default; returns, on a response in the
\* success range, the parsed payload unchanged; and attaches the
\* authorization header exactly when local storage holds a bearer
\* credential.
HasCredential(t) == t # <<>> /\ t[1] # ""

RaisesBodyMessageOrDefault ==
    call.arg.outcome.kind = "status" =>
        /\ call.out.result.threw
        /\ call.out.result.err =
              Err(IF call.arg.outcome.errmsg # "" THEN call.arg.outcome.errmsg
                  ELSE DefaultMsg(call.arg.api))

AttachesCredential ==
    /\ call.out.headers.ContentType = "application/json"
    /\ IF HasCredential(call.arg.token)
       THEN call.out.headers.Authorization = <<"Bearer", call.arg.token[1]>>
       ELSE call.out.headers.Authorization = <<>>

C24_EveryOperationReturnsPayload ==
    call.fn = "request" =>
        /\ RaisesBodyMessageOrDefault
        /\ call.arg.outcome.kind = "ok" =>
              ~call.out.result.threw /\ call.out.result.body = call.arg.outcome
        /\ AttachesCredential

\* C24 (amended): as stated, but deleteTemplate returns true on a response
\* in the success range, whose body it does not read; the nine other
\* operations return the parsed payload unchanged.
C24_ApiClientContract ==
    call.fn = "request" =>
        /\ RaisesBodyMessageOrDefault
        /\ call.arg.outcome.kind = "ok" =>
              /\ ~call.out.result.threw
              /\ call.out.result.body =
                    (IF call.arg.api = "delete" THEN True ELSE call.arg.outcome)
        /\ AttachesCredential

C24_Witness ==
    /\ call.fn = "request" /\ call.arg.api = "delete"
    /\ call.arg.outcome.kind = "ok" /\ call.arg.token = <<"tok">>
    /\ call.out.result.body = True
    /\ call.out.headers.Authorization = <<"Bearer", "tok">>

\* C25: when the current-user response carries a role string that is none of
\* teacher, parent and student, the store falls back to student; the role
\* (userType) is therefore always student, parent or teacher, or empty when
\* no profile is loaded.
Roles == {"student", "parent", "teacher"}

C25_UnknownRoleFallsBackToStudent ==
    /\ userType \in Roles \cup {""}
    /\ ProfileLoaded
       => LET a == authSettled.api
              received == IF a.role # "" THEN a.role ELSE a.user_type
          IN  received \notin Roles => userType = "student"

\* C28: whenever createTemplate returns success = true the error slot is
\* empty and the collection is the page of a successful re-list; it does not
\* report success with the collection cleared and an error recorded.
C28_CreateSuccessMeansRelisted ==
    (lastResult.op = "create" /\ lastResult.kind = "struct" /\ lastResult.success)
    => /\ error = Null
       /\ ~Failed(settled)
       /\ templates = (IF settled.hasData THEN settled.templates ELSE <<>>)

\* C29: whenever login returns success = true the store holds a populated
\* normalized profile and a role; it does not return success with the
\* credential stored and the profile and role empty.
C29_LoginSuccessMeansProfile ==
    authResult = AuthSuccess("login")
    => /\ userData # <<>>
       /\ userType # ""

\* C30 (as stated): with overlapping operations the busy flag is true
\* whenever at least one asynchronous operation is in flight.
C30_BusyWhileAnyInFlight == Busy # {} => loading

\* C30 (amended): the busy flag is raised when an operation is issued and
\* lowered by the completion of any operation, also while another one,
\* issued earlier or later, is still in flight; it then stays down until a
\* further request is issued.
C30_AnyCompletionLowersBusy ==
    [][/\ \A i \in Slots :
            /\ (ops[i].kind = "idle" /\ ops'[i].kind # "idle") => loading'
            /\ (ops[i].kind # "idle" /\ ops'[i].kind = "idle") => ~loading'
       /\ (\A i \in Slots : ~(ops[i].kind = "idle" /\ ops'[i].kind # "idle"))
            => (loading' => loading)]_vars

\* One operation has just returned and lowered the flag while the other is
\* still in flight.
C30_Witness ==
    /\ lastResult.kind # "none"
    /\ Busy # {}
    /\ ~loading

\* The collection holds an element with identifier id.
Holds(s, id) == \E k \in 1..Len(s) : s[k].template_id = id

\* deleteTemplate has just returned success: whatever is still in flight
\* was issued before the delete completed.
DeleteJustCompleted ==
    lastResult.op = "delete" /\ lastResult.kind = "struct" /\ lastResult.success

\* C26 (as stated): once a delete of X has completed successfully, the
\* completion of a request issued before the delete completed does not put
\* X back into the collection (stated for the request that completes next).
C26_DeletedNeverReappears ==
    [][\A j \in Slots :
        (DeleteJustCompleted /\ ops[j].kind # "idle" /\ ops'[j].kind = "idle")
        => ~Holds(templates', lastResult.id)]_vars

\* C26 (amended): a successful delete of X leaves the collection without X
\* at its completion; of the requests issued before that completion, an
\* update or get-by-id that completes afterwards does not put X back, but a
\* list response that arrives afterwards replaces the collection with its
\* page, X included when the page holds it.
C26_StaleListRestores ==
    [][\A j \in Slots :
        /\ (Returns(j, "delete") /\ lastResult'.success)
           => ~Holds(templates', ops[j].id)
        /\ (DeleteJustCompleted /\ Returns(j, "list") /\ ~Failed(settled'))
           => templates' = (IF settled'.hasData THEN settled'.templates ELSE <<>>)
        /\ (DeleteJustCompleted /\ (Returns(j, "update") \/ Returns(j, "get")))
           => ~Holds(templates', lastResult.id)]_vars

\* The delete of a template, issued after a list request, has completed
\* successfully while that list request is still in flight.
C26_Witness ==
    /\ DeleteJustCompleted
    /\ ~Holds(templates, lastResult.id)
    /\ ops[1].kind = "list" /\ ops[2].kind = "idle"

\* C27: the selected-template check of delete and update is made against
\* the selection at the time the response is applied: when the template that
\* is selected then is the one deleted, the selection becomes empty; when it
\* is the one updated, the selection becomes the updated record (also when
\* get-by-id selected it while the delete or update was in flight).
C27_SelectionCheckedAtResponse ==
    [][\A i \in Slots :
        /\ (Returns(i, "delete") /\ lastResult'.success
              /\ Selected(currentTemplate, ops[i].id))
           => currentTemplate' = <<>>
        /\ (Returns(i, "update") /\ lastResult'.success
              /\ Selected(currentTemplate, ops[i].id))
           => currentTemplate' = settled'.rec]_vars

====
